---- MODULE Spec2Model ----
(***************************************************************************)
(* Migr8 migration engine: the migration directory, the ledger table of    *)
(* the target database, and the Migrator operations Up, Down and Status    *)
(* run by processes that share the directory and the database.             *)
(*                                                                         *)
(* Abstractions.  A script is a sequence of tokens; ";" is the statement   *)
(* separator, " " and "\n" are white space, "--" is the comment marker and *)
(* every other token stands for a run of SQL text.  The 14-digit prefix of *)
(* a file name is shortened to its month and day digits MMDD (year 2023    *)
(* and time 12:00:00 are fixed).  An MD5 digest is the pair <<"md5", c>>   *)
(* of the content it was computed over.  The database is transactional:    *)
(* the writes of a transaction reach the tables at commit and are dropped  *)
(* at rollback.  Any database or file-system call may fail.                *)
(***************************************************************************)
EXTENDS Integers, Sequences, FiniteSets, TLC

\* ------------------------------------------------------------------ bounds
\* Number of Up/Down/Status invocations in one history.
MaxOps == 3
\* Number of times the migration directory is edited between invocations.
MaxEdits == 1
\* Largest steps argument handed to Down (the smallest is -1).
MaxSteps == 3

\* ----------------------------------------------------------------- scripts
Whitespace == {" ", "\n"}

UpA == <<"a1", ";", "\n", "a2", ";", "\n">>
DownA == <<"da", ";">>
UpB == <<"b1", ";">>
DownB == <<"db", ";">>
UpC == <<"c1">>
Empty == <<>>

\* strings.Index(s, ";") + 1, or 0 when s holds no separator.
IndexSep(s) ==
    IF \E k \in 1..Len(s) : s[k] = ";"
    THEN CHOOSE k \in 1..Len(s) : s[k] = ";" /\ \A j \in 1..(k - 1) : s[j] # ";"
    ELSE 0

\* strings.Split(s, ";"): n separators give n + 1 pieces, empty ones kept.
RECURSIVE Split(_)
Split(s) ==
    IF IndexSep(s) = 0 THEN <<s>>
    ELSE <<SubSeq(s, 1, IndexSep(s) - 1)>> \o Split(SubSeq(s, IndexSep(s) + 1, Len(s)))

\* strings.TrimSpace
RECURSIVE TrimLeft(_)
TrimLeft(s) ==
    IF s # <<>> /\ Head(s) \in Whitespace THEN TrimLeft(Tail(s)) ELSE s

RECURSIVE TrimRight(_)
TrimRight(s) ==
    IF s # <<>> /\ s[Len(s)] \in Whitespace THEN TrimRight(SubSeq(s, 1, Len(s) - 1)) ELSE s

TrimSpace(s) == TrimRight(TrimLeft(s))

\* strings.HasPrefix(stmt, "--")
HasPrefix(stmt) == stmt # <<>> /\ stmt[1] = "--"

\* The loop head of applyMigration and rollbackMigration: the pieces of the
\* script that reach tx.Exec, trimmed, in script order.
RECURSIVE Filter(_)
Filter(pieces) ==
    IF pieces = <<>> THEN <<>>
    ELSE LET stmt == TrimSpace(Head(pieces))
         IN  IF stmt = <<>> \/ HasPrefix(stmt)
             THEN Filter(Tail(pieces))
             ELSE <<stmt>> \o Filter(Tail(pieces))

Statements(script) == Filter(Split(script))

\* ------------------------------------------------------------- directory
\* A file of the migration directory.  ext "txt" stands for every name the
\* pattern ^(\d{14})_(.+)\.(up|down)\.sql$ does not match.
File(prefix, name, ext, content) ==
    [prefix |-> prefix, name |-> name, ext |-> ext, content |-> content]

FileUniverse ==
    { File(102, "a", "up", UpA), File(102, "a", "down", DownA),
      File(101, "b", "up", UpB), File(101, "b", "down", DownB),
      File(102, "c", "up", UpC) }

FileName(f) == <<f.prefix, f.name, f.ext>>

\* The directory is absent, or holds files with pairwise different names.
NoDirectory == [exists |-> FALSE, files |-> {}]

Directories ==
    {NoDirectory} \cup
    { [exists |-> TRUE, files |-> fs] : fs \in
        { d \in SUBSET FileUniverse :
            \A f, g \in d : FileName(f) = FileName(g) => f = g } }

\* time.Parse("20060102150405", timestamp) with the error dropped: the zero
\* time (before every valid time) when the digits name no calendar day.
DaysIn(month) ==
    IF month = 2 THEN 28
    ELSE IF month \in {4, 6, 9, 11} THEN 30 ELSE 31

ParseTime(prefix) ==
    LET month == prefix \div 100
        day   == prefix % 100
    IN  IF month \in 1..12 /\ day \in 1..DaysIn(month) THEN prefix ELSE 0

Before(t, u) == t < u

\* fmt.Sprintf("%s_%s", timestamp, name)
BaseFilename(f) == <<f.prefix, f.name>>

generateChecksum(content) == <<"md5", content>>

Matches(f) == f.ext \in {"up", "down"}

\* A scan that drops the content of down files.
MapEntryUpOnly(d, base) ==
    LET ups == { f \in d : Matches(f) /\ BaseFilename(f) = base /\ f.ext = "up" }
    IN  [ Filename  |-> base,
          Up        |-> IF ups = {} THEN Empty ELSE (CHOOSE f \in ups : TRUE).content,
          Down      |-> Empty,
          Timestamp |-> ParseTime(base[1]) ]

\* The record migrationMap holds for one base filename after the scan.
MapEntry(d, base) ==
    LET ups   == { f \in d : Matches(f) /\ BaseFilename(f) = base /\ f.ext = "up" }
        downs == { f \in d : Matches(f) /\ BaseFilename(f) = base /\ f.ext = "down" }
    IN  [ Filename  |-> base,
          Up        |-> IF ups = {} THEN Empty ELSE (CHOOSE f \in ups : TRUE).content,
          Down      |-> IF downs = {} THEN Empty ELSE (CHOOSE f \in downs : TRUE).content,
          Timestamp |-> ParseTime(base[1]) ]

migrationMap(d) ==
    { MapEntry(d, base) : base \in { BaseFilename(f) : f \in { g \in d : Matches(g) } } }

WithChecksum(m) ==
    [ Filename |-> m.Filename, Up |-> m.Up, Down |-> m.Down,
      Checksum |-> generateChecksum(m.Up), Timestamp |-> m.Timestamp ]

\* The orders sort.Slice may leave the records in: every arrangement in
\* which no record stands before one whose Timestamp is earlier (the map is
\* ranged over in any order and the sort is not stable).
IsSorted(ms) ==
    \A i, j \in 1..Len(ms) : i < j => ~Before(ms[j].Timestamp, ms[i].Timestamp)

Arrangements(S) ==
    { ms \in [1..Cardinality(S) -> S] : \A i, j \in 1..Cardinality(S) : ms[i] = ms[j] => i = j }

\* sort.Slice left out: the records stay in map order.
SortSliceSkipped(S) == Arrangements(S)

SortSlice(S) == { ms \in Arrangements(S) : IsSorted(ms) }

\* LoadMigrations without the check for records whose Up is empty.
LoadMigrationsUnvalidated(d) ==
    IF ~d.exists THEN { [err |-> FALSE, Migrations |-> <<>>] }
    ELSE
      { [err |-> TRUE, Migrations |-> <<>>] } \cup
      { [err |-> FALSE, Migrations |-> ms] :
          ms \in SortSlice({ WithChecksum(m) : m \in migrationMap(d.files) }) }

\* LoadMigrations that returns the error of os.Stat for an absent directory.
LoadMigrationsAbsentIsError(d) ==
    IF ~d.exists THEN { [err |-> TRUE, Migrations |-> <<>>] }
    ELSE
      { [err |-> TRUE, Migrations |-> <<>>] } \cup
      ( IF \E m \in migrationMap(d.files) : m.Up = Empty
        THEN { [err |-> TRUE, Migrations |-> <<>>] }
        ELSE { [err |-> FALSE, Migrations |-> ms] :
                 ms \in SortSlice({ WithChecksum(m) : m \in migrationMap(d.files) }) } )

\* The outcomes of LoadMigrations(directory): an error, or a migration set.
LoadMigrations(d) ==
    IF ~d.exists THEN { [err |-> FALSE, Migrations |-> <<>>] }
    ELSE
      \* os.ReadDir or os.ReadFile fails
      { [err |-> TRUE, Migrations |-> <<>>] } \cup
      ( IF \E m \in migrationMap(d.files) : m.Up = Empty
        THEN { [err |-> TRUE, Migrations |-> <<>>] }
        ELSE { [err |-> FALSE, Migrations |-> ms] :
                 ms \in SortSlice({ WithChecksum(m) : m \in migrationMap(d.files) }) } )

\* ---------------------------------------------------------- migration set
\* An applied set that holds the latest entry of the list only.
AppliedSetLatest(appliedMigrations) ==
    IF appliedMigrations = <<>> THEN {}
    ELSE { appliedMigrations[Len(appliedMigrations)] }

\* GetPending: the migrations of the set, in its order, whose Filename the
\* appliedSet map built from appliedMigrations does not hold.
AppliedSet(appliedMigrations) ==
    { appliedMigrations[k] : k \in 1..Len(appliedMigrations) }

RECURSIVE PendingLoop(_, _)
PendingLoop(Migrations, appliedSet) ==
    IF Migrations = <<>> THEN <<>>
    ELSE IF Head(Migrations).Filename \notin appliedSet
         THEN <<Head(Migrations)>> \o PendingLoop(Tail(Migrations), appliedSet)
         ELSE PendingLoop(Tail(Migrations), appliedSet)

\* GetPending that forgets the applied list.
GetPendingAll(Migrations, appliedMigrations) == Migrations

\* GetPending as a watermark: only what is later than the latest applied one.
GetPendingWatermark(Migrations, appliedMigrations) ==
    LET appliedTimes == { Migrations[n].Timestamp : n \in
                            { j \in 1..Len(Migrations) :
                                Migrations[j].Filename \in AppliedSet(appliedMigrations) } }
        Later(m) == \A t \in appliedTimes : Before(t, m.Timestamp)
    IN  SelectSeq(Migrations, Later)

GetPending(Migrations, appliedMigrations) ==
    PendingLoop(Migrations, AppliedSet(appliedMigrations))

NoMigration ==
    [ Filename |-> <<0, "none">>, Up |-> Empty, Down |-> Empty,
      Checksum |-> generateChecksum(Empty), Timestamp |-> 0 ]

\* A lookup that falls back to the first migration of the set when no
\* migration has that Filename.
GetMigrationByFilenameOrFirst(Migrations, filename) ==
    IF \E k \in 1..Len(Migrations) : Migrations[k].Filename = filename
    THEN [ err |-> FALSE,
           migration |-> Migrations[CHOOSE k \in 1..Len(Migrations) :
                            /\ Migrations[k].Filename = filename
                            /\ \A j \in 1..(k - 1) : Migrations[j].Filename # filename] ]
    ELSE IF Len(Migrations) >= 1
    THEN [ err |-> FALSE, migration |-> Migrations[1] ]
    ELSE [ err |-> TRUE, migration |-> NoMigration ]

\* GetMigrationByFilename: the first migration of that Filename, or the
\* not-found error.
GetMigrationByFilename(Migrations, filename) ==
    IF \E k \in 1..Len(Migrations) : Migrations[k].Filename = filename
    THEN [ err |-> FALSE,
           migration |-> Migrations[CHOOSE k \in 1..Len(Migrations) :
                            /\ Migrations[k].Filename = filename
                            /\ \A j \in 1..(k - 1) : Migrations[j].Filename # filename] ]
    ELSE [ err |-> TRUE, migration |-> NoMigration ]

\* ----------------------------------------------------------------- state
Procs == {"p1", "p2"}

VARIABLES
    dir,          \* the migration directory
    tableExists,  \* whether the ledger table exists
    rows,         \* the committed rows of the ledger table
    nextId,       \* the next value of the table's id sequence
    schema,       \* the committed statements of migration scripts, oldest first
    loc,          \* per process: the invocation in progress and its locals
    nOps,         \* invocations started so far
    nEdits        \* directory edits so far

vars == <<dir, tableExists, rows, nextId, schema, loc, nOps, nEdits>>
db == <<tableExists, rows, nextId, schema>>

\* Config{}: every field at its zero value.  raw is the Config as
\* viper.Unmarshal filled it, cfg the Config after setDefaults, Driver the
\* Driver field of the DB the process holds.
ZeroConfig ==
    [ Driver |-> "", Host |-> "", Port |-> 0, Database |-> "", Username |-> "",
      Password |-> "", SSLMode |-> "", MigrationDirectory |-> "", MigrationTable |-> "",
      BackupDirectory |-> "", BackupCompression |-> FALSE, BackupRetentionDays |-> 0,
      SeedDirectory |-> "", Verbose |-> FALSE ]

\* What is remembered of the invocation that ran before the current one:
\* whether it was an Up that returned nil, and then the ledger rows it started
\* from and the number of transactions it committed.  History only; no step
\* reads it.
NoPrev == [upOk |-> FALSE, startRows |-> {}, n |-> 0]

Summary(l) ==
    IF l.op = "Up" /\ l.result = "ok"
    THEN [upOk |-> TRUE, startRows |-> l.startRows, n |-> Len(l.committed)]
    ELSE NoPrev

\* A process between invocations.  The fields from startRows on record the
\* history of the invocation; no step reads them.  calls holds the ledger
\* operations the invocation has called, each with whether it was issued on
\* the open transaction (tx.Exec) or on the connection pool (db.Exec, db.Query).
\* history holds the calls a client made on the DB methods directly.
IdleLoc ==
    [ pc |-> "idle", op |-> "none", result |-> "none",
      steps |-> 0, migrationSet |-> <<>>, appliedMigrations |-> <<>>,
      pendingMigrations |-> <<>>, toRollback |-> <<>>, i |-> 0,
      migration |-> NoMigration, statements |-> <<>>, k |-> 0,
      txOpen |-> FALSE, tx |-> <<>>, report |-> <<>>,
      reqSteps |-> 0, startRows |-> {}, beginRows |-> {}, beginSchema |-> <<>>,
      attempted |-> <<>>, committed |-> <<>>, stage |-> "none",
      prev |-> NoPrev, calls |-> {}, history |-> <<>>,
      raw |-> ZeroConfig, cfg |-> ZeroConfig, Driver |-> "", seedFiles |-> <<>> ]

Init ==
    /\ dir \in Directories
    /\ tableExists = FALSE
    /\ rows = {}
    /\ nextId = 1
    /\ schema = <<>>
    /\ loc = [p \in Procs |-> IdleLoc]
    /\ nOps = 0
    /\ nEdits = 0

\* -------------------------------------------------------------- database
\* SELECT filename FROM table ORDER BY id
RECURSIVE OrderById(_)
OrderById(rs) ==
    IF rs = {} THEN <<>>
    ELSE LET first == CHOOSE r \in rs : \A q \in rs : r.id <= q.id
         IN  <<first>> \o OrderById(rs \ {first})

Filenames(ordered) == [n \in 1..Len(ordered) |-> ordered[n].filename]

\* ORDER BY filename in place of ORDER BY id.
RECURSIVE OrderByFilename(_)
OrderByFilename(rs) ==
    IF rs = {} THEN <<>>
    ELSE LET first == CHOOSE r \in rs : \A q \in rs : r.filename[1] <= q.filename[1]
         IN  <<first>> \o OrderByFilename(rs \ {first})

GetAppliedByFilename(rs) == Filenames(OrderByFilename(rs))

GetAppliedMigrations(rs) == Filenames(OrderById(rs))

\* Writes a transaction holds until it commits.
ExecWrite(filename, stmt) ==
    [kind |-> "exec", filename |-> filename, stmt |-> stmt,
     checksum |-> generateChecksum(Empty), id |-> 0]

\* INSERT INTO table (filename, checksum) VALUES (?, ?)
recordMigrationInTx(migration, id) ==
    [kind |-> "insert", filename |-> migration.Filename, stmt |-> Empty,
     checksum |-> migration.Checksum, id |-> id]

\* DELETE FROM table WHERE filename = ?
removeMigrationInTx(filename) ==
    [kind |-> "delete", filename |-> filename, stmt |-> Empty,
     checksum |-> generateChecksum(Empty), id |-> 0]

\* A constraint that looks at the inserts of the same transaction only.
UniqueViolationInTx(rs, tx, filename) ==
    \E n \in 1..Len(tx) : tx[n].kind = "insert" /\ tx[n].filename = filename

\* A filename column without the UNIQUE constraint: no insert is refused.
UniqueViolationNever(rs, tx, filename) == FALSE

\* filename ... NOT NULL UNIQUE: the insert is refused when a row of that
\* filename is committed or was written earlier in the transaction.
UniqueViolation(rs, tx, filename) ==
    \/ \E r \in rs : r.filename = filename
    \/ \E n \in 1..Len(tx) : tx[n].kind = "insert" /\ tx[n].filename = filename

\* tx.Commit: the writes reach the tables in the order they were made.
RECURSIVE CommitRows(_, _)
CommitRows(rs, tx) ==
    IF tx = <<>> THEN rs
    ELSE LET w == Head(tx)
         IN  CommitRows(
                 IF w.kind = "insert"
                 THEN rs \cup {[id |-> w.id, filename |-> w.filename, checksum |-> w.checksum]}
                 ELSE IF w.kind = "delete"
                 THEN { r \in rs : r.filename # w.filename }
                 ELSE rs,
                 Tail(tx))

RECURSIVE CommitSchema(_, _)
CommitSchema(sc, tx) ==
    IF tx = <<>> THEN sc
    ELSE LET w == Head(tx)
         IN  CommitSchema(
                 IF w.kind = "exec"
                 THEN Append(sc, [filename |-> w.filename, stmt |-> w.stmt])
                 ELSE sc,
                 Tail(tx))

\* A return that leaves the transaction open (no deferred tx.Rollback).
RollbackNever(l) == l

\* The deferred tx.Rollback of a transaction that did not commit.
Rollback(l) == [l EXCEPT !.txOpen = FALSE, !.tx = <<>>]

\* A ledger operation is called, on the transaction or on the pool.
Call(l, name, inTx) == [l EXCEPT !.calls = @ \cup {[name |-> name, inTx |-> inTx]}]

\* return err / return nil
Return(l, result) == [l EXCEPT !.pc = "done", !.result = result]

\* ------------------------------------------------- transactions, shared
\* db.Begin succeeded for `migration`; `script` is the script to run.
Begin(l, migration, script, execPc, writePc) ==
    [l EXCEPT !.migration = migration, !.txOpen = TRUE, !.tx = <<>>,
              !.statements = Statements(script), !.k = 1,
              !.pc = IF Len(Statements(script)) >= 1 THEN execPc ELSE writePc,
              !.beginRows = rows, !.beginSchema = schema,
              !.attempted = Append(@, migration.Filename)]

\* db.Begin failed for `migration`.
BeginFailed(l, migration) ==
    [l EXCEPT !.migration = migration,
              !.beginRows = rows, !.beginSchema = schema,
              !.attempted = Append(@, migration.Filename)]

\* A loop that leaves the script after its first statement.
ExecFirstOnly(l, execPc, writePc) ==
    [l EXCEPT !.tx = Append(@, ExecWrite(l.migration.Filename, l.statements[l.k])),
              !.k = @ + 1,
              !.pc = writePc]

\* tx.Exec(stmt) succeeded for statement k of the script.
Exec(l, execPc, writePc) ==
    [l EXCEPT !.tx = Append(@, ExecWrite(l.migration.Filename, l.statements[l.k])),
              !.k = @ + 1,
              !.pc = IF l.k < Len(l.statements) THEN execPc ELSE writePc]

\* tx.Commit succeeded.
Committed(l) ==
    [l EXCEPT !.txOpen = FALSE, !.tx = <<>>,
              !.committed = Append(@, l.migration.Filename)]

\* --------------------------------------------------------------------- Up
\* Up that goes on with the next pending migration after a failure.
UpApplyFailedKeepGoing(l, stage) ==
    IF l.i < Len(l.pendingMigrations)
    THEN [l EXCEPT !.i = @ + 1, !.pc = "apply_begin", !.stage = stage]
    ELSE Return([l EXCEPT !.stage = stage], "err_apply")

\* Up that calls applyMigration again for the migration that failed, up to
\* three calls in all.
UpApplyFailedRetry(l, stage) ==
    IF Len(l.attempted) < 3
    THEN [l EXCEPT !.pc = "apply_begin", !.stage = stage]
    ELSE Return([l EXCEPT !.stage = stage], "err_apply")

\* Up, when applyMigration returned an error: return it.
UpApplyFailed(l, stage) == Return([l EXCEPT !.stage = stage], "err_apply")

\* Up that reports success after the first migration it applied.
UpAppliedOnce(l) == Return(l, "ok")

\* Up, when applyMigration returned nil: the next pending migration, or done.
UpApplied(l) ==
    IF l.i < Len(l.pendingMigrations)
    THEN [l EXCEPT !.i = @ + 1, !.pc = "apply_begin"]
    ELSE Return(l, "ok")

\* Up that goes through the pending migrations from the last to the first.
UpPendingNewestFirst(l) ==
    LET pending == GetPending(l.migrationSet, l.appliedMigrations)
        pendingMigrations == [n \in 1..Len(pending) |-> pending[Len(pending) + 1 - n]]
    IN  IF Len(pendingMigrations) = 0
        THEN Return([l EXCEPT !.pendingMigrations = pendingMigrations], "ok")
        ELSE [l EXCEPT !.pendingMigrations = pendingMigrations, !.i = 1,
                       !.pc = "apply_begin"]

\* Up, from GetPending to the head of the loop.
UpPending(l) ==
    LET pendingMigrations == GetPending(l.migrationSet, l.appliedMigrations)
    IN  IF Len(pendingMigrations) = 0
        THEN Return([l EXCEPT !.pendingMigrations = pendingMigrations], "ok")
        ELSE [l EXCEPT !.pendingMigrations = pendingMigrations, !.i = 1,
                       !.pc = "apply_begin"]

\* An Up that starts by making the table anew (DROP TABLE, CREATE TABLE).
UpCreateMigrationsTableAnew(p) ==
    /\ loc[p].pc = "idle"
    /\ nOps < MaxOps
    /\ nOps' = nOps + 1
    /\ \E ok \in BOOLEAN :
         /\ tableExists' = (tableExists \/ ok)
         /\ rows' = IF ok THEN {} ELSE rows
         /\ loc' = [loc EXCEPT ![p] =
                LET l == Call([IdleLoc EXCEPT !.op = "Up", !.startRows = rows,
                                              !.prev = loc[p].prev],
                              "CreateMigrationsTable", FALSE)
                IN  IF ok THEN [l EXCEPT !.pc = "up_load"]
                    ELSE Return(l, "err_create")]
    /\ UNCHANGED <<dir, nextId, schema, nEdits>>

\* An Up invocation starts: CreateMigrationsTable (CREATE TABLE IF NOT EXISTS).
UpCreateMigrationsTable(p) ==
    /\ loc[p].pc = "idle"
    /\ nOps < MaxOps
    /\ nOps' = nOps + 1
    /\ \E ok \in BOOLEAN :
         /\ tableExists' = (tableExists \/ ok)
         /\ loc' = [loc EXCEPT ![p] =
                LET l == Call([IdleLoc EXCEPT !.op = "Up", !.startRows = rows,
                                              !.prev = loc[p].prev],
                              "CreateMigrationsTable", FALSE)
                IN  IF ok THEN [l EXCEPT !.pc = "up_load"]
                    ELSE Return(l, "err_create")]
    /\ UNCHANGED <<dir, rows, nextId, schema, nEdits>>

UpLoadMigrations(p) ==
    /\ loc[p].pc = "up_load"
    /\ \E r \in LoadMigrations(dir) :
         loc' = [loc EXCEPT ![p] =
                IF r.err THEN Return(loc[p], "err_load")
                ELSE [loc[p] EXCEPT !.migrationSet = r.Migrations, !.pc = "up_applied"]]
    /\ UNCHANGED <<dir, db, nOps, nEdits>>

\* An Up that compares the checksum of every applied migration it loaded with
\* the checksum in the ledger and refuses a difference.
UpGetAppliedMigrationsVerified(p) ==
    /\ loc[p].pc = "up_applied"
    /\ \E ok \in BOOLEAN :
         loc' = [loc EXCEPT ![p] =
                LET l == Call(loc[p], "GetAppliedMigrations", FALSE)
                IN  IF ~(ok /\ tableExists) THEN Return(l, "err_applied")
                    ELSE IF \E r \in rows : \E n \in 1..Len(l.migrationSet) :
                                /\ l.migrationSet[n].Filename = r.filename
                                /\ l.migrationSet[n].Checksum # r.checksum
                    THEN Return(l, "err_checksum")
                    ELSE UpPending([l EXCEPT !.appliedMigrations = GetAppliedMigrations(rows)])]
    /\ UNCHANGED <<dir, db, nOps, nEdits>>

\* An Up that refuses a ledger whose entries it cannot find on disk.
UpGetAppliedMigrationsStrict(p) ==
    /\ loc[p].pc = "up_applied"
    /\ \E ok \in BOOLEAN :
         loc' = [loc EXCEPT ![p] =
                LET l == Call(loc[p], "GetAppliedMigrations", FALSE)
                    applied == GetAppliedMigrations(rows)
                IN  IF ~(ok /\ tableExists) THEN Return(l, "err_applied")
                    ELSE IF \E n \in 1..Len(applied) :
                                GetMigrationByFilename(l.migrationSet, applied[n]).err
                    THEN Return(l, "err_find")
                    ELSE UpPending([l EXCEPT !.appliedMigrations = applied])]
    /\ UNCHANGED <<dir, db, nOps, nEdits>>

UpGetAppliedMigrations(p) ==
    /\ loc[p].pc = "up_applied"
    /\ \E ok \in BOOLEAN :
         loc' = [loc EXCEPT ![p] =
                LET l == Call(loc[p], "GetAppliedMigrations", FALSE)
                IN  IF ok /\ tableExists
                    THEN UpPending([l EXCEPT !.appliedMigrations = GetAppliedMigrations(rows)])
                    ELSE Return(l, "err_applied")]
    /\ UNCHANGED <<dir, db, nOps, nEdits>>

\* applyMigration: db.Begin
applyMigrationBegin(p) ==
    /\ loc[p].pc = "apply_begin"
    /\ \E ok \in BOOLEAN :
         loc' = [loc EXCEPT ![p] =
                LET migration == loc[p].pendingMigrations[loc[p].i]
                IN  IF ok
                    THEN Begin(loc[p], migration, migration.Up, "apply_exec", "apply_record")
                    ELSE UpApplyFailed(BeginFailed(loc[p], migration), "begin")]
    /\ UNCHANGED <<dir, db, nOps, nEdits>>

\* applyMigration running the statement on the connection pool (m.db.Exec)
\* instead of the transaction: the statement is committed at once.
applyMigrationExecOnDb(p) ==
    /\ loc[p].pc = "apply_exec"
    /\ \E ok \in BOOLEAN :
         /\ schema' = IF ok
                       THEN Append(schema, [filename |-> loc[p].migration.Filename,
                                            stmt |-> loc[p].statements[loc[p].k]])
                       ELSE schema
         /\ loc' = [loc EXCEPT ![p] =
                IF ok
                THEN [loc[p] EXCEPT !.k = @ + 1,
                         !.pc = IF loc[p].k < Len(loc[p].statements)
                                THEN "apply_exec" ELSE "apply_record"]
                ELSE UpApplyFailed(Rollback(loc[p]), "exec")]
    /\ UNCHANGED <<dir, tableExists, rows, nextId, nOps, nEdits>>

\* applyMigration: tx.Exec(stmt) for the next statement of the up script
applyMigrationExec(p) ==
    /\ loc[p].pc = "apply_exec"
    /\ \E ok \in BOOLEAN :
         loc' = [loc EXCEPT ![p] =
                IF ok THEN Exec(loc[p], "apply_exec", "apply_record")
                ELSE UpApplyFailed(Rollback(loc[p]), "exec")]
    /\ UNCHANGED <<dir, db, nOps, nEdits>>

\* Another transaction holds an insert of that filename it has not committed:
\* the unique index makes the insert wait until that transaction ends.
InsertPending(p, filename) ==
    \E q \in Procs \ {p} : \E n \in 1..Len(loc[q].tx) :
        loc[q].tx[n].kind = "insert" /\ loc[q].tx[n].filename = filename

\* applyMigration recording the migration on the connection pool
\* (db.RecordMigration) instead of the transaction: the row is there at once.
applyMigrationRecordOnDb(p) ==
    /\ loc[p].pc = "apply_record"
    /\ \E ok \in BOOLEAN :
         LET done == ok /\ ~UniqueViolation(rows, loc[p].tx, loc[p].migration.Filename)
         IN  /\ nextId' = IF done THEN nextId + 1 ELSE nextId
             /\ rows' = IF done
                        THEN CommitRows(rows, <<recordMigrationInTx(loc[p].migration, nextId)>>)
                        ELSE rows
             /\ loc' = [loc EXCEPT ![p] =
                    LET l == Call(loc[p], "RecordMigration", FALSE)
                    IN  IF done THEN [l EXCEPT !.pc = "apply_commit"]
                        ELSE UpApplyFailed(Rollback(l), "record")]
    /\ UNCHANGED <<dir, tableExists, schema, nOps, nEdits>>

\* applyMigration: recordMigrationInTx
applyMigrationRecord(p) ==
    /\ loc[p].pc = "apply_record"
    /\ \E ok \in BOOLEAN :
         LET done == ok /\ ~UniqueViolation(rows, loc[p].tx, loc[p].migration.Filename)
         IN  /\ ok => ~InsertPending(p, loc[p].migration.Filename)
             /\ nextId' = IF done THEN nextId + 1 ELSE nextId
             /\ loc' = [loc EXCEPT ![p] =
                    LET l == Call(loc[p], "recordMigrationInTx", TRUE)
                    IN  IF done
                        THEN [l EXCEPT !.tx = Append(@, recordMigrationInTx(l.migration, nextId)),
                                       !.pc = "apply_commit"]
                        ELSE UpApplyFailed(Rollback(l), "record")]
    /\ UNCHANGED <<dir, tableExists, rows, schema, nOps, nEdits>>

\* applyMigration: tx.Commit
applyMigrationCommit(p) ==
    /\ loc[p].pc = "apply_commit"
    /\ \E ok \in BOOLEAN :
         /\ rows' = IF ok THEN CommitRows(rows, loc[p].tx) ELSE rows
         /\ schema' = IF ok THEN CommitSchema(schema, loc[p].tx) ELSE schema
         /\ loc' = [loc EXCEPT ![p] =
                IF ok THEN UpApplied(Committed(loc[p]))
                ELSE UpApplyFailed(Rollback(loc[p]), "commit")]
    /\ UNCHANGED <<dir, tableExists, nextId, nOps, nEdits>>

\* ------------------------------------------------------------------- Down
\* A clamp that falls back to one step.
ClampStepsToOne(steps, n) == IF steps <= 0 \/ steps > n THEN 1 ELSE steps

\* if steps <= 0 || steps > len(appliedMigrations) { steps = len(...) }
ClampSteps(steps, n) == IF steps <= 0 \/ steps > n THEN n ELSE steps

\* A selection of the oldest entries: appliedMigrations[:steps]
ToRollbackOldest(appliedMigrations, steps) == SubSeq(appliedMigrations, 1, steps)

\* appliedMigrations[len(appliedMigrations)-steps:]
ToRollback(appliedMigrations, steps) ==
    SubSeq(appliedMigrations, Len(appliedMigrations) - steps + 1, Len(appliedMigrations))

\* Down that skips an entry it cannot roll back and goes on.
DownFailedSkip(l, result, stage) ==
    IF l.i > 1
    THEN [l EXCEPT !.i = @ - 1, !.pc = "down_lookup", !.stage = stage]
    ELSE Return([l EXCEPT !.stage = stage], result)

\* Down, when a step of the loop failed: return the error.
DownFailed(l, result, stage) == Return([l EXCEPT !.stage = stage], result)

\* Down, when rollbackMigration returned nil: the entry before, or done.
DownRolledBack(l) ==
    IF l.i > 1
    THEN [l EXCEPT !.i = @ - 1, !.pc = "down_lookup"]
    ELSE Return(l, "ok")

\* Down whose loop starts at the oldest selected entry.
DownSelectOldestFirst(l) ==
    LET steps == IF l.steps <= 0 \/ l.steps > Len(l.appliedMigrations)
                 THEN Len(l.appliedMigrations) ELSE l.steps
        toRollback == SubSeq(l.appliedMigrations,
                             Len(l.appliedMigrations) - steps + 1, Len(l.appliedMigrations))
    IN  [l EXCEPT !.steps = steps, !.toRollback = toRollback,
                  !.i = 1, !.pc = "down_lookup"]

\* Down, from the clamp to the head of the loop.
DownSelect(l) ==
    LET steps == ClampSteps(l.steps, Len(l.appliedMigrations))
        toRollback == ToRollback(l.appliedMigrations, steps)
    IN  [l EXCEPT !.steps = steps, !.toRollback = toRollback,
                  !.i = Len(toRollback), !.pc = "down_lookup"]

\* A Down(steps) invocation starts: GetAppliedMigrations.
DownGetAppliedMigrations(p, steps) ==
    /\ loc[p].pc = "idle"
    /\ nOps < MaxOps
    /\ nOps' = nOps + 1
    /\ \E ok \in BOOLEAN :
         loc' = [loc EXCEPT ![p] =
                LET l == Call([IdleLoc EXCEPT !.op = "Down", !.steps = steps,
                                         !.reqSteps = steps, !.startRows = rows,
                                         !.prev = loc[p].prev,
                                         !.appliedMigrations =
                                             IF ok /\ tableExists
                                             THEN GetAppliedMigrations(rows) ELSE <<>>],
                              "GetAppliedMigrations", FALSE)
                IN  IF ~(ok /\ tableExists) THEN Return(l, "err_applied")
                    ELSE IF Len(l.appliedMigrations) = 0 THEN Return(l, "ok")
                    ELSE [l EXCEPT !.pc = "down_load"]]
    /\ UNCHANGED <<dir, db, nEdits>>

DownLoadMigrations(p) ==
    /\ loc[p].pc = "down_load"
    /\ \E r \in LoadMigrations(dir) :
         loc' = [loc EXCEPT ![p] =
                IF r.err THEN Return(loc[p], "err_load")
                ELSE DownSelect([loc[p] EXCEPT !.migrationSet = r.Migrations])]
    /\ UNCHANGED <<dir, db, nOps, nEdits>>

\* The head of the loop without the Down == "" test.
DownLookupNoDownTest(p) ==
    /\ loc[p].pc = "down_lookup"
    /\ loc' = [loc EXCEPT ![p] =
           LET found == GetMigrationByFilename(loc[p].migrationSet, loc[p].toRollback[loc[p].i])
           IN  IF found.err THEN DownFailed(loc[p], "err_find", "find")
               ELSE [loc[p] EXCEPT !.migration = found.migration, !.pc = "rollback_begin"]]
    /\ UNCHANGED <<dir, db, nOps, nEdits>>

\* The head of the loop: GetMigrationByFilename and the Down == "" test.
DownLookup(p) ==
    /\ loc[p].pc = "down_lookup"
    /\ loc' = [loc EXCEPT ![p] =
           LET found == GetMigrationByFilename(loc[p].migrationSet, loc[p].toRollback[loc[p].i])
           IN  IF found.err THEN DownFailed(loc[p], "err_find", "find")
               ELSE IF found.migration.Down = Empty
               THEN DownFailed(loc[p], "err_nodown", "nodown")
               ELSE [loc[p] EXCEPT !.migration = found.migration, !.pc = "rollback_begin"]]
    /\ UNCHANGED <<dir, db, nOps, nEdits>>

\* rollbackMigration: db.Begin
rollbackMigrationBegin(p) ==
    /\ loc[p].pc = "rollback_begin"
    /\ \E ok \in BOOLEAN :
         loc' = [loc EXCEPT ![p] =
                IF ok
                THEN Begin(loc[p], loc[p].migration, loc[p].migration.Down, "rollback_exec", "rollback_remove")
                ELSE DownFailed(BeginFailed(loc[p], loc[p].migration), "err_rollback", "begin")]
    /\ UNCHANGED <<dir, db, nOps, nEdits>>

\* rollbackMigration: tx.Exec(stmt) for the next statement of the down script
rollbackMigrationExec(p) ==
    /\ loc[p].pc = "rollback_exec"
    /\ \E ok \in BOOLEAN :
         loc' = [loc EXCEPT ![p] =
                IF ok THEN Exec(loc[p], "rollback_exec", "rollback_remove")
                ELSE DownFailed(Rollback(loc[p]), "err_rollback", "exec")]
    /\ UNCHANGED <<dir, db, nOps, nEdits>>

\* rollbackMigration deleting the ledger row on the connection pool
\* (db.RemoveMigration) instead of the transaction: the row is gone at once.
rollbackMigrationRemoveOnDb(p) ==
    /\ loc[p].pc = "rollback_remove"
    /\ \E ok \in BOOLEAN :
         /\ rows' = IF ok
                    THEN CommitRows(rows, <<removeMigrationInTx(loc[p].migration.Filename)>>)
                    ELSE rows
         /\ loc' = [loc EXCEPT ![p] =
                LET l == Call(loc[p], "RemoveMigration", FALSE)
                IN  IF ok THEN [l EXCEPT !.pc = "rollback_commit"]
                    ELSE DownFailed(Rollback(l), "err_rollback", "remove")]
    /\ UNCHANGED <<dir, tableExists, nextId, schema, nOps, nEdits>>

\* rollbackMigration: removeMigrationInTx
rollbackMigrationRemove(p) ==
    /\ loc[p].pc = "rollback_remove"
    /\ \E ok \in BOOLEAN :
         loc' = [loc EXCEPT ![p] =
                LET l == Call(loc[p], "removeMigrationInTx", TRUE)
                IN  IF ok
                    THEN [l EXCEPT !.tx = Append(@, removeMigrationInTx(l.migration.Filename)),
                                   !.pc = "rollback_commit"]
                    ELSE DownFailed(Rollback(l), "err_rollback", "remove")]
    /\ UNCHANGED <<dir, db, nOps, nEdits>>

\* rollbackMigration: tx.Commit
rollbackMigrationCommit(p) ==
    /\ loc[p].pc = "rollback_commit"
    /\ \E ok \in BOOLEAN :
         /\ rows' = IF ok THEN CommitRows(rows, loc[p].tx) ELSE rows
         /\ schema' = IF ok THEN CommitSchema(schema, loc[p].tx) ELSE schema
         /\ loc' = [loc EXCEPT ![p] =
                IF ok THEN DownRolledBack(Committed(loc[p]))
                ELSE DownFailed(Rollback(loc[p]), "err_rollback", "commit")]
    /\ UNCHANGED <<dir, tableExists, nextId, nOps, nEdits>>

\* ----------------------------------------------------------------- Status
\* A report that marks as applied every migration not later than the latest
\* applied one.
StatusReportWatermark(Migrations, appliedMigrations) ==
    [ lines |-> [n \in 1..Len(Migrations) |->
                    [ Filename |-> Migrations[n].Filename,
                      applied  |-> \E k \in 1..Len(appliedMigrations) :
                                      ~Before(ParseTime(appliedMigrations[k][1]),
                                              Migrations[n].Timestamp) ]],
      total   |-> Len(Migrations),
      applied |-> Len(appliedMigrations),
      pending |-> Len(GetPending(Migrations, appliedMigrations)) ]

\* The lines and the totals Status prints.
StatusReport(Migrations, appliedMigrations) ==
    [ lines |-> [n \in 1..Len(Migrations) |->
                    [ Filename |-> Migrations[n].Filename,
                      applied  |-> Migrations[n].Filename \in AppliedSet(appliedMigrations) ]],
      total   |-> Len(Migrations),
      applied |-> Len(appliedMigrations),
      pending |-> Len(GetPending(Migrations, appliedMigrations)) ]

\* A Status invocation starts: LoadMigrations.
StatusLoadMigrations(p) ==
    /\ loc[p].pc = "idle"
    /\ nOps < MaxOps
    /\ nOps' = nOps + 1
    /\ \E r \in LoadMigrations(dir) :
         loc' = [loc EXCEPT ![p] =
                LET l == [IdleLoc EXCEPT !.op = "Status", !.startRows = rows,
                                             !.prev = loc[p].prev]
                IN  IF r.err THEN Return(l, "err_load")
                    ELSE [l EXCEPT !.migrationSet = r.Migrations, !.pc = "status_applied"]]
    /\ UNCHANGED <<dir, db, nEdits>>

\* Status that takes a missing ledger table for an empty ledger.
StatusGetAppliedMigrationsLenient(p) ==
    /\ loc[p].pc = "status_applied"
    /\ \E ok \in BOOLEAN :
         loc' = [loc EXCEPT ![p] =
                LET l == Call(loc[p], "GetAppliedMigrations", FALSE)
                IN  IF ~ok THEN Return(l, "err_applied")
                    ELSE IF Len(l.migrationSet) = 0
                    THEN Return([l EXCEPT !.appliedMigrations = GetAppliedMigrations(rows)], "ok")
                    ELSE Return([l EXCEPT !.appliedMigrations = GetAppliedMigrations(rows),
                                          !.report = <<StatusReport(l.migrationSet,
                                                            GetAppliedMigrations(rows))>>], "ok")]
    /\ UNCHANGED <<dir, db, nOps, nEdits>>

StatusGetAppliedMigrations(p) ==
    /\ loc[p].pc = "status_applied"
    /\ \E ok \in BOOLEAN :
         loc' = [loc EXCEPT ![p] =
                LET l == Call(loc[p], "GetAppliedMigrations", FALSE)
                IN  IF ~(ok /\ tableExists) THEN Return(l, "err_applied")
                    ELSE IF Len(l.migrationSet) = 0
                    THEN Return([l EXCEPT !.appliedMigrations = GetAppliedMigrations(rows)], "ok")
                    ELSE Return([l EXCEPT !.appliedMigrations = GetAppliedMigrations(rows),
                                          !.report = <<StatusReport(l.migrationSet,
                                                            GetAppliedMigrations(rows))>>], "ok")]
    /\ UNCHANGED <<dir, db, nOps, nEdits>>

\* ------------------------------------------------------------ environment
\* The invocation is over; the process may be started again.
Exit(p) ==
    /\ loc[p].pc = "done"
    /\ loc' = [loc EXCEPT ![p] = [IdleLoc EXCEPT !.prev = Summary(loc[p])]]
    /\ UNCHANGED <<dir, db, nOps, nEdits>>

\* Somebody adds, removes or replaces migration files between invocations.
EditDirectory ==
    /\ \A p \in Procs : loc[p].pc = "idle"
    /\ nEdits < MaxEdits
    /\ nEdits' = nEdits + 1
    /\ dir' \in Directories \ {dir}
    /\ UNCHANGED <<db, loc, nOps>>

Step(p) ==
    \/ UpCreateMigrationsTable(p)
    \/ UpLoadMigrations(p)
    \/ UpGetAppliedMigrations(p)
    \/ applyMigrationBegin(p)
    \/ applyMigrationExec(p)
    \/ applyMigrationRecord(p)
    \/ applyMigrationCommit(p)
    \/ \E steps \in (0 - 1)..MaxSteps : DownGetAppliedMigrations(p, steps)
    \/ DownLoadMigrations(p)
    \/ DownLookup(p)
    \/ rollbackMigrationBegin(p)
    \/ rollbackMigrationExec(p)
    \/ rollbackMigrationRemove(p)
    \/ rollbackMigrationCommit(p)
    \/ StatusLoadMigrations(p)
    \/ StatusGetAppliedMigrations(p)
    \/ Exit(p)

\* One process: the single-process histories of Up, Down and Status.
Next == (\E p \in {"p1"} : Step(p)) \/ EditDirectory

Spec == Init /\ [][Next]_vars

\* ---------------------------------------------- edited migration scripts
\* Somebody edits the up script of a migration between invocations: the file
\* keeps its name and gets other content.
Edited(content) == content \o <<"\n", "e1", ";">>

EditUpScript ==
    /\ \A p \in Procs : loc[p].pc = "idle"
    /\ nEdits < MaxEdits
    /\ nEdits' = nEdits + 1
    /\ \E f \in dir.files :
         /\ f.ext = "up"
         /\ dir' = [dir EXCEPT !.files =
                       (@ \ {f}) \cup {File(f.prefix, f.name, f.ext, Edited(f.content))}]
    /\ UNCHANGED <<db, loc, nOps>>

NextDrift == (\E p \in {"p1"} : Step(p)) \/ EditUpScript

SpecDrift == Init /\ [][NextDrift]_vars

\* ------------------------------------------------- the down command line
\* steps = 9999 for the argument "all"
AllSteps == 9999
\* Ledger lengths tried around AllSteps: AllSteps - MaxNear .. AllSteps + MaxNear.
MaxNear == 4

\* The argument of `migrate down`: none, "all", a decimal number, other text.
DownArgs ==
    { [kind |-> "none", n |-> 0], [kind |-> "all", n |-> 0], [kind |-> "text", n |-> 0] } \cup
    { [kind |-> "number", n |-> n] : n \in (0 - 1)..MaxSteps }

\* The steps migrateDownCmd hands to Down, or the error it returns itself.
ParseSteps(arg) ==
    IF arg.kind = "none" THEN [err |-> FALSE, steps |-> 1]
    ELSE IF arg.kind = "all" THEN [err |-> FALSE, steps |-> AllSteps]
    ELSE IF arg.kind = "text" THEN [err |-> TRUE, steps |-> 0]
    ELSE IF arg.n <= 0 THEN [err |-> TRUE, steps |-> arg.n]
    ELSE [err |-> FALSE, steps |-> arg.n]

\* A ledger of n entries as GetAppliedMigrations returns it.
LedgerOf(n) == [i \in 1..n |-> <<i, "m">>]

LedgerSizes == (0..MaxSteps) \cup ((AllSteps - MaxNear)..(AllSteps + MaxNear))

InitDownCmd ==
    /\ dir = NoDirectory
    /\ tableExists = TRUE
    /\ rows = {}
    /\ nextId = 1
    /\ schema = <<>>
    /\ \E n \in LedgerSizes :
         loc = [p \in Procs |->
                  IF p = "p1"
                  THEN [IdleLoc EXCEPT !.pc = "down_args", !.appliedMigrations = LedgerOf(n)]
                  ELSE IdleLoc]
    /\ nOps = 0
    /\ nEdits = 0

\* migrate down [arg], every selected migration having a down script and
\* every transaction committing: the entries Down takes out of the ledger
\* are kept in committed, latest first.
migrateDownCmd(p, arg) ==
    /\ loc[p].pc = "down_args"
    /\ loc' = [loc EXCEPT ![p] =
           LET parsed == ParseSteps(arg)
               l == [loc[p] EXCEPT !.op = "Down", !.stage = arg.kind,
                                   !.steps = parsed.steps, !.reqSteps = parsed.steps]
           IN  IF parsed.err THEN Return(l, "err_args")
               ELSE IF Len(l.appliedMigrations) = 0 THEN Return(l, "ok")
               ELSE LET s == DownSelect(l)
                        k == Len(s.toRollback)
                    IN  Return([s EXCEPT !.i = 1,
                                         !.committed = [j \in 1..k |-> s.toRollback[k + 1 - j]]],
                               "ok")]
    /\ UNCHANGED <<dir, db, nOps, nEdits>>

NextDownCmd == \E p \in {"p1"} : \E arg \in DownArgs : migrateDownCmd(p, arg)

SpecDownCmd == InitDownCmd /\ [][NextDownCmd]_vars

\* ------------------------------------------------ GetPending on its own
\* Longest applied list handed to GetPending.
MaxApplied == 3

\* The identities an applied list may name: those of the files and one that
\* has no file.
Identities == { BaseFilename(f) : f \in FileUniverse } \cup { <<103, "x">> }

AppliedLists == UNION { [1..n -> Identities] : n \in 0..MaxApplied }

\* Every migration set LoadMigrations can return.
MigrationSets ==
    UNION { { r.Migrations : r \in { q \in LoadMigrations(d) : ~q.err } } : d \in Directories }

InitPending ==
    /\ dir = NoDirectory
    /\ tableExists = FALSE
    /\ rows = {}
    /\ nextId = 1
    /\ schema = <<>>
    /\ nOps = 0
    /\ nEdits = 0
    /\ \E ms \in MigrationSets, applied \in AppliedLists :
         loc = [p \in Procs |->
                  IF p = "p1"
                  THEN [IdleLoc EXCEPT !.pc = "get_pending", !.migrationSet = ms,
                                       !.appliedMigrations = applied]
                  ELSE IdleLoc]

CallGetPending(p) ==
    /\ loc[p].pc = "get_pending"
    /\ loc' = [loc EXCEPT ![p] =
           [loc[p] EXCEPT !.pendingMigrations =
                              GetPending(loc[p].migrationSet, loc[p].appliedMigrations),
                          !.pc = "got_pending"]]
    /\ UNCHANGED <<dir, db, nOps, nEdits>>

NextPending == \E p \in {"p1"} : CallGetPending(p)

SpecPending == InitPending /\ [][NextPending]_vars

\* ------------------------------------------- the DB methods on their own
\* A client (the integration test, or any caller of package database) calls
\* CreateMigrationsTable, RecordMigration, RemoveMigration and
\* GetAppliedMigrations on the connection, one statement per call.
\* Number of such calls in one history.
MaxCalls == 4

\* One call as the history keeps it: its arguments, its result, what it
\* returned and the ledger rows before and after it.
CallRecord(op, filename, result, returned, before, after) ==
    [op |-> op, filename |-> filename, result |-> result, returned |-> returned,
     before |-> before, after |-> after]

Called(p, call) ==
    /\ loc[p].pc = "idle"
    /\ Len(loc[p].history) < MaxCalls
    /\ loc' = [loc EXCEPT ![p] = [loc[p] EXCEPT !.history = Append(@, call)]]

\* db.Exec or db.Query on the ledger table: the connection may fail, and the
\* statement fails when the table does not exist.
ExecResult(ok) ==
    IF ~ok THEN "err_conn" ELSE IF ~tableExists THEN "err_notable" ELSE "ok"

InitLedger ==
    /\ dir = NoDirectory
    /\ tableExists \in BOOLEAN
    /\ rows = {}
    /\ nextId = 1
    /\ schema = <<>>
    /\ loc = [p \in Procs |-> IdleLoc]
    /\ nOps = 0
    /\ nEdits = 0

\* CREATE TABLE IF NOT EXISTS
CreateMigrationsTable(p) ==
    \E ok \in BOOLEAN :
        /\ Called(p, CallRecord("CreateMigrationsTable", NoMigration.Filename,
                                IF ok THEN "ok" ELSE "err_conn", <<>>, rows, rows))
        /\ tableExists' = (tableExists \/ ok)
        /\ UNCHANGED <<dir, rows, nextId, schema, nOps, nEdits>>

\* SELECT filename FROM table ORDER BY id
DbGetAppliedMigrations(p) ==
    \E ok \in BOOLEAN :
        /\ Called(p, CallRecord("GetAppliedMigrations", NoMigration.Filename,
                                ExecResult(ok),
                                IF ExecResult(ok) = "ok" THEN GetAppliedMigrations(rows)
                                ELSE <<>>,
                                rows, rows))
        /\ UNCHANGED <<dir, db, nOps, nEdits>>

\* An insert that replaces the row of a filename already recorded
\* (INSERT ... ON CONFLICT DO UPDATE): the row keeps its id.
RecordMigrationUpsert(p, filename, checksum) ==
    \E ok \in BOOLEAN :
        LET result == ExecResult(ok)
            kept == { r \in rows : r.filename # filename }
            after == IF result # "ok" THEN rows
                     ELSE IF kept # rows
                     THEN kept \cup { [id |-> r.id, filename |-> filename,
                                       checksum |-> checksum] :
                                      r \in rows \ kept }
                     ELSE rows \cup {[id |-> nextId, filename |-> filename,
                                      checksum |-> checksum]}
        IN  /\ Called(p, CallRecord("RecordMigration", filename, result, <<>>, rows, after))
            /\ rows' = after
            /\ nextId' = IF result = "ok" /\ kept = rows THEN nextId + 1 ELSE nextId
            /\ UNCHANGED <<dir, tableExists, schema, nOps, nEdits>>

\* INSERT INTO table (filename, checksum) VALUES (?, ?)
RecordMigration(p, filename, checksum) ==
    \E ok \in BOOLEAN :
        LET result == IF ExecResult(ok) # "ok" THEN ExecResult(ok)
                      ELSE IF UniqueViolation(rows, <<>>, filename) THEN "err_unique"
                      ELSE "ok"
            after == IF result = "ok"
                     THEN CommitRows(rows, <<[kind |-> "insert", filename |-> filename,
                                              stmt |-> Empty, checksum |-> checksum,
                                              id |-> nextId]>>)
                     ELSE rows
        IN  /\ Called(p, CallRecord("RecordMigration", filename, result, <<>>, rows, after))
            /\ rows' = after
            /\ nextId' = IF result = "ok" THEN nextId + 1 ELSE nextId
            /\ UNCHANGED <<dir, tableExists, schema, nOps, nEdits>>

\* A delete that reports an error when it removed no row.
RemoveMigrationStrict(p, filename) ==
    \E ok \in BOOLEAN :
        LET result == IF ExecResult(ok) # "ok" THEN ExecResult(ok)
                      ELSE IF \A r \in rows : r.filename # filename THEN "err_absent"
                      ELSE "ok"
            after == IF result = "ok"
                     THEN CommitRows(rows, <<removeMigrationInTx(filename)>>)
                     ELSE rows
        IN  /\ Called(p, CallRecord("RemoveMigration", filename, result, <<>>, rows, after))
            /\ rows' = after
            /\ UNCHANGED <<dir, tableExists, nextId, schema, nOps, nEdits>>

\* DELETE FROM table WHERE filename = ?
RemoveMigration(p, filename) ==
    \E ok \in BOOLEAN :
        LET result == ExecResult(ok)
            after == IF result = "ok"
                     THEN CommitRows(rows, <<removeMigrationInTx(filename)>>)
                     ELSE rows
        IN  /\ Called(p, CallRecord("RemoveMigration", filename, result, <<>>, rows, after))
            /\ rows' = after
            /\ UNCHANGED <<dir, tableExists, nextId, schema, nOps, nEdits>>

\* The filenames a client records, each with the checksum of its up script.
LedgerEntries ==
    { <<BaseFilename(f), generateChecksum(f.content)>> : f \in { g \in FileUniverse : g.ext = "up" } }

NextLedger ==
    \E p \in {"p1"} :
        \/ CreateMigrationsTable(p)
        \/ DbGetAppliedMigrations(p)
        \/ \E e \in LedgerEntries : RecordMigration(p, e[1], e[2])
        \/ \E e \in LedgerEntries : RemoveMigration(p, e[1])

SpecLedger == InitLedger /\ [][NextLedger]_vars

\* ------------------------------------------------ two Ups at the same time
\* Two invocations of Up run against the same database and directory; each
\* is a process of its own, takes its steps whenever it can, and nothing
\* orders the steps of one against those of the other.
NextConc ==
    \E p \in Procs :
        \/ UpCreateMigrationsTable(p)
        \/ UpLoadMigrations(p)
        \/ UpGetAppliedMigrations(p)
        \/ applyMigrationBegin(p)
        \/ applyMigrationExec(p)
        \/ applyMigrationRecord(p)
        \/ applyMigrationCommit(p)

SpecConc == Init /\ [][NextConc]_vars /\ WF_vars(NextConc)

\* ------------------------------------------------------------------ claims
LedgerFilenames == { r.filename : r \in rows }

RowTime(r) == ParseTime(r.filename[1])

Names(ms) == [n \in 1..Len(ms) |-> ms[n].Filename]

UpFailed(p) ==
    loc[p].op = "Up" /\ loc[p].pc = "done" /\ loc[p].result = "err_apply"

UpSucceeded(p) ==
    loc[p].op = "Up" /\ loc[p].pc = "done" /\ loc[p].result = "ok"

DownDone(p) == loc[p].op = "Down" /\ loc[p].pc = "done"

DownSucceeded(p) == DownDone(p) /\ loc[p].result = "ok"

C2_AppliedAtMostOnce ==
    /\ \A r, q \in rows : r.filename = q.filename => r = q
    /\ \A p \in Procs :
           (loc[p].op = "Up" /\ loc[p].txOpen) =>
               loc[p].migration.Filename \notin LedgerFilenames

\* Up executes a script in a later invocation, the ledger holding entries and
\* the same script having been committed before (applied, then rolled back).
C2_Witness ==
    \E p \in Procs :
        /\ loc[p].op = "Up"
        /\ loc[p].txOpen
        /\ Len(loc[p].tx) >= 1
        /\ rows # {}
        /\ \E n \in 1..Len(schema) : schema[n].filename = loc[p].migration.Filename

\* C3: GetPending returns exactly the migrations of the set whose Filename
\* is not in the applied list, each once, in the order of the set (which is
\* ascending by Timestamp).
C3_PendingIsDifference ==
    \A p \in Procs :
        loc[p].pc = "got_pending" =>
            LET ms      == loc[p].migrationSet
                applied == AppliedSet(loc[p].appliedMigrations)
                pending == loc[p].pendingMigrations
                Pos(m)  == CHOOSE n \in 1..Len(ms) : ms[n] = m
            IN  /\ { pending[n] : n \in 1..Len(pending) } =
                       { ms[n] : n \in { j \in 1..Len(ms) : ms[j].Filename \notin applied } }
                /\ \A a, b \in 1..Len(pending) : a < b => Pos(pending[a]) < Pos(pending[b])
                /\ \A a, b \in 1..Len(pending) :
                       a < b => ~Before(pending[b].Timestamp, pending[a].Timestamp)

\* A gapped applied list: a migration is pending although a migration with a
\* later Timestamp is applied.
C3_Witness ==
    \E p \in Procs :
        /\ loc[p].pc = "got_pending"
        /\ \E a \in 1..Len(loc[p].pendingMigrations), n \in 1..Len(loc[p].migrationSet) :
               /\ loc[p].migrationSet[n].Filename \in AppliedSet(loc[p].appliedMigrations)
               /\ Before(loc[p].pendingMigrations[a].Timestamp,
                         loc[p].migrationSet[n].Timestamp)

\* C4: a successful Down(k) with 1 <= k <= n leaves the first n - k entries
\* of the ledger's id order, rows unchanged.
C4_DownRemovesLastK ==
    \A p \in Procs :
        ( DownSucceeded(p)
          /\ 1 <= loc[p].reqSteps
          /\ loc[p].reqSteps <= Cardinality(loc[p].startRows) ) =>
            OrderById(rows) =
                SubSeq(OrderById(loc[p].startRows), 1,
                       Cardinality(loc[p].startRows) - loc[p].reqSteps)

\* Down(1) on a ledger of two entries whose last inserted entry has the
\* earlier timestamp: that entry is removed, the later-timestamped one stays.
C4_Witness ==
    \E p \in Procs :
        /\ DownSucceeded(p)
        /\ loc[p].reqSteps = 1
        /\ Cardinality(loc[p].startRows) = 2
        /\ LET before == OrderById(loc[p].startRows)
           IN  /\ Before(RowTime(before[2]), RowTime(before[1]))
               /\ OrderById(rows) = <<before[1]>>

\* C5: a successful Down(steps) with steps <= 0 or steps greater than the
\* number of ledger entries leaves the ledger empty.
C5_DownClampsToAll ==
    \A p \in Procs :
        ( DownSucceeded(p)
          /\ ( loc[p].reqSteps <= 0 \/ loc[p].reqSteps > Cardinality(loc[p].startRows) ) ) =>
            rows = {}

\* Down(3) with two entries applied rolled both back.
C5_Witness ==
    \E p \in Procs :
        /\ DownSucceeded(p)
        /\ loc[p].reqSteps > Cardinality(loc[p].startRows)
        /\ Cardinality(loc[p].startRows) = 2
        /\ Len(loc[p].committed) = 2

\* Down(0) or Down(-1) with two entries applied rolled both back.
C5_WitnessNonPositive ==
    \E p \in Procs :
        /\ DownSucceeded(p)
        /\ loc[p].reqSteps <= 0
        /\ Cardinality(loc[p].startRows) = 2
        /\ Len(loc[p].committed) = 2

\* C6: when Up returns the error of applying its i-th pending migration, the
\* ledger is the one Up started with followed by the first i - 1 pending
\* migrations, the i-th is absent, and applyMigration was called for the
\* first i pending migrations only.
C6_UpStopsAtFirstFailure ==
    \A p \in Procs :
        UpFailed(p) =>
            LET pending == Names(loc[p].pendingMigrations)
            IN  /\ GetAppliedMigrations(rows) =
                       GetAppliedMigrations(loc[p].startRows) \o SubSeq(pending, 1, loc[p].i - 1)
                /\ pending[loc[p].i] \notin LedgerFilenames
                /\ loc[p].attempted = SubSeq(pending, 1, loc[p].i)

\* The second of three pending migrations failed.
C6_Witness ==
    \E p \in Procs :
        /\ UpFailed(p)
        /\ loc[p].i = 2
        /\ Len(loc[p].pendingMigrations) = 3
        /\ Cardinality(rows) = Cardinality(loc[p].startRows) + 1

\* C7: the rows an Up run has added to the ledger so far are, in id order,
\* the migrations it committed, in nondecreasing Timestamp order.
C7_UpAscending ==
    \A p \in Procs :
        loc[p].op = "Up" =>
            LET added == OrderById(rows \ loc[p].startRows)
            IN  /\ Filenames(added) = loc[p].committed
                /\ \A a, b \in 1..Len(added) :
                       a < b => ~Before(RowTime(added[b]), RowTime(added[a]))

\* One Up run added three entries, the first earlier than the last.
C7_Witness ==
    \E p \in Procs :
        /\ UpSucceeded(p)
        /\ LET added == OrderById(rows \ loc[p].startRows)
           IN  /\ Len(added) = 3
               /\ Before(RowTime(added[1]), RowTime(added[3]))

\* C8: when Up returns success, every migration of the pending set it
\* computed and every identity with an up file in the directory is in the
\* ledger.
C8_UpSuccessMeansAllApplied ==
    \A p \in Procs :
        UpSucceeded(p) =>
            /\ \A n \in 1..Len(loc[p].pendingMigrations) :
                   loc[p].pendingMigrations[n].Filename \in LedgerFilenames
            /\ \A f \in dir.files :
                   (Matches(f) /\ f.ext = "up") => BaseFilename(f) \in LedgerFilenames

\* Up succeeded with two or more pending migrations.
C8_Witness ==
    \E p \in Procs :
        /\ UpSucceeded(p)
        /\ Len(loc[p].pendingMigrations) >= 2

\* C9: the entries a Down run has rolled back so far are the last entries of
\* its rollback set, latest first; the entry it works on is the next one.
C9_DownReverseOrder ==
    \A p \in Procs :
        loc[p].op = "Down" =>
            LET toRollback == loc[p].toRollback
                n == Len(toRollback)
            IN  /\ Len(loc[p].committed) <= n
                /\ \A j \in 1..Len(loc[p].committed) :
                       loc[p].committed[j] = toRollback[n - j + 1]
                /\ \A j \in 1..Len(loc[p].attempted) :
                       loc[p].attempted[j] = toRollback[n - j + 1]
                /\ LedgerFilenames =
                       { r.filename : r \in loc[p].startRows } \
                           { loc[p].committed[j] : j \in 1..Len(loc[p].committed) }

\* Two entries were rolled back by one Down.
C9_Witness ==
    \E p \in Procs :
        /\ loc[p].op = "Down"
        /\ Len(loc[p].committed) = 2
        /\ loc[p].committed[1] # loc[p].committed[2]

\* C10: when Down returns, the ledger is a prefix, in id order, of the ledger
\* it started with; when it returns the error of entry i of its rollback set,
\* the entries removed are exactly the selected entries after i.
C10_DownLeavesPrefix ==
    \A p \in Procs :
        DownDone(p) =>
            LET before == OrderById(loc[p].startRows)
                after  == OrderById(rows)
            IN  /\ Len(after) <= Len(before)
                /\ after = SubSeq(before, 1, Len(after))
                /\ loc[p].result \in {"err_find", "err_nodown", "err_rollback"} =>
                       Len(after) = Len(before) - (Len(loc[p].toRollback) - loc[p].i)
                /\ loc[p].result \in {"err_applied", "err_load"} => after = before

\* Down failed at its second entry after rolling the first one back.
C10_Witness ==
    \E p \in Procs :
        /\ DownDone(p)
        /\ loc[p].result \in {"err_find", "err_nodown", "err_rollback"}
        /\ Len(loc[p].toRollback) - loc[p].i = 1
        /\ Len(loc[p].committed) = 1
        /\ rows # {}

C12_RoundTrip ==
    \A p \in Procs :
        (/\ DownSucceeded(p)
         /\ loc[p].prev.upOk
         /\ loc[p].prev.n >= 1
         /\ loc[p].reqSteps = loc[p].prev.n) =>
            /\ rows = loc[p].prev.startRows
            /\ GetAppliedMigrations(rows) = GetAppliedMigrations(loc[p].prev.startRows)

\* The round trip started from a ledger that already held an entry, and the
\* Down committed as many rollbacks as the Up had committed applications.
C12_Witness ==
    \E p \in Procs :
        /\ DownSucceeded(p)
        /\ loc[p].prev.upOk
        /\ loc[p].prev.n >= 1
        /\ loc[p].reqSteps = loc[p].prev.n
        /\ Len(loc[p].committed) = loc[p].prev.n
        /\ loc[p].prev.startRows # {}

\* The ledger entries Down has not got past: those before the selection and
\* the selected ones up to the entry the loop is at.
DownKept(p) ==
    SubSeq(loc[p].appliedMigrations, 1,
           Len(loc[p].appliedMigrations) - Len(loc[p].toRollback) + loc[p].i)

\* Down is past the head of the loop for the selected entry it is at.
DownPastLookup(p) ==
    loc[p].op = "Down" /\ loc[p].i >= 1 /\ loc[p].pc # "down_lookup"

\* C13: when the selected ledger entry Down is at names no loaded migration,
\* Down has returned the not-found error, no transaction was begun for that
\* entry, and the ledger holds exactly that entry and all earlier ones.
C13_MissingFileAborts ==
    \A p \in Procs :
        (/\ DownPastLookup(p)
         /\ \A n \in 1..Len(loc[p].migrationSet) :
                loc[p].migrationSet[n].Filename # loc[p].toRollback[loc[p].i]) =>
            /\ loc[p].pc = "done"
            /\ loc[p].result = "err_find"
            /\ ~loc[p].txOpen
            /\ Len(loc[p].attempted) = Len(loc[p].toRollback) - loc[p].i
            /\ GetAppliedMigrations(rows) = DownKept(p)

\* Down rolled one entry back and then met an entry without a migration.
C13_Witness ==
    \E p \in Procs :
        /\ DownDone(p)
        /\ loc[p].result = "err_find"
        /\ Len(loc[p].committed) >= 1
        /\ loc[p].toRollback[loc[p].i] \notin
               { loc[p].migrationSet[n].Filename : n \in 1..Len(loc[p].migrationSet) }

\* C14: when the migration of the selected ledger entry Down is at has an
\* empty Down script, Down has returned the no-down-script error, no
\* transaction was begun for that entry, and the ledger holds exactly that
\* entry and all earlier ones.
C14_NoDownScriptAborts ==
    \A p \in Procs :
        (/\ DownPastLookup(p)
         /\ LET found == GetMigrationByFilename(loc[p].migrationSet,
                                                loc[p].toRollback[loc[p].i])
            IN  ~found.err /\ found.migration.Down = Empty) =>
            /\ loc[p].pc = "done"
            /\ loc[p].result = "err_nodown"
            /\ ~loc[p].txOpen
            /\ Len(loc[p].attempted) = Len(loc[p].toRollback) - loc[p].i
            /\ GetAppliedMigrations(rows) = DownKept(p)

\* Down rolled one entry back and then met a migration without a down script.
C14_Witness ==
    \E p \in Procs :
        /\ DownDone(p)
        /\ loc[p].result = "err_nodown"
        /\ Len(loc[p].committed) >= 1
        /\ GetMigrationByFilename(loc[p].migrationSet,
                                  loc[p].toRollback[loc[p].i]).migration.Down = Empty

\* The directory holds a down file of a base filename that has no up file.
DownOnly(d) ==
    /\ d.exists
    /\ \E f \in d.files :
         /\ f.ext = "down"
         /\ \A g \in d.files : g.ext = "up" => BaseFilename(g) # BaseFilename(f)

\* The invocation of p is over and did not stop at a failed database call
\* made before the directory is read (CreateMigrationsTable in Up,
\* GetAppliedMigrations in Down).
DoneBeyondDb(p) ==
    loc[p].pc = "done" /\ loc[p].result \notin {"err_create", "err_applied"}

\* C15 as stated: with a down-only base filename in the directory, Up, Down
\* and Status each return the load error, begin no transaction and leave the
\* ledger rows as they were.
C15_Original ==
    \A p \in Procs :
        (DoneBeyondDb(p) /\ DownOnly(dir)) =>
            /\ loc[p].result = "err_load"
            /\ loc[p].attempted = <<>>
            /\ rows = loc[p].startRows

\* C15 (amended): with a down-only base filename in the directory, Up and
\* Status return the load error; Down returns the load error when the ledger
\* is not empty and nil, without reading the directory, when it is empty.  In
\* each case no transaction is begun and the ledger rows stay as they were.
C15_DownOnlyFileIsLoadError ==
    \A p \in Procs :
        (DoneBeyondDb(p) /\ DownOnly(dir)) =>
            /\ loc[p].attempted = <<>>
            /\ rows = loc[p].startRows
            /\ loc[p].op \in {"Up", "Status"} => loc[p].result = "err_load"
            /\ loc[p].op = "Down" =>
                   loc[p].result = IF loc[p].startRows = {} THEN "ok" ELSE "err_load"

\* Down met the down-only base filename with an entry in the ledger.
C15_Witness ==
    \E p \in Procs :
        /\ DownDone(p)
        /\ DownOnly(dir)
        /\ loc[p].startRows # {}
        /\ loc[p].result = "err_load"

\* The ledger operations of the store, by the name the code gives each on the
\* connection pool and inside a transaction.
EnsureLedgerCalls == {"CreateMigrationsTable"}
ListAppliedCalls == {"GetAppliedMigrations"}
RecordAppliedCalls == {"RecordMigration", "recordMigrationInTx"}
RecordRemovedCalls == {"RemoveMigration", "removeMigrationInTx"}

\* C16 as stated: every ledger operation an invocation calls is issued on the
\* transaction of the migration being applied or rolled back.
C16_Original ==
    \A p \in Procs : \A c \in loc[p].calls : c.inTx

\* C16 (amended): recordApplied and recordRemoved are issued only on the
\* transaction of the migration being applied or rolled back; ensureLedger
\* and listApplied are issued only on the connection pool, outside any
\* transaction.
C16_LedgerCallsAndTransactions ==
    \A p \in Procs : \A c \in loc[p].calls :
        /\ c.name \in RecordAppliedCalls \cup RecordRemovedCalls => c.inTx
        /\ c.name \in EnsureLedgerCalls \cup ListAppliedCalls => ~c.inTx

\* An Up has called ensureLedger, listApplied and recordApplied.
C16_Witness ==
    \E p \in Procs :
        { c.name : c \in loc[p].calls } =
            {"CreateMigrationsTable", "GetAppliedMigrations", "recordMigrationInTx"}

\* The filenames a history of calls recorded and did not remove since, in the
\* order in which they were recorded.
RECURSIVE Recorded(_)
Recorded(h) ==
    IF h = <<>> THEN <<>>
    ELSE LET before == Recorded(SubSeq(h, 1, Len(h) - 1))
             call == h[Len(h)]
         IN  IF call.result # "ok" THEN before
             ELSE IF call.op = "RecordMigration" THEN Append(before, call.filename)
             ELSE IF call.op = "RemoveMigration"
             THEN SelectSeq(before, LAMBDA f : f # call.filename)
             ELSE before

\* C17: after any sequence of RecordMigration and RemoveMigration calls, a
\* GetAppliedMigrations that returns no error returns exactly the filenames
\* recorded and not removed since, in the order in which they were recorded.
C17_ListIsInsertionOrder ==
    \A p \in Procs : \A n \in 1..Len(loc[p].history) :
        (loc[p].history[n].op = "GetAppliedMigrations" /\ loc[p].history[n].result = "ok") =>
            loc[p].history[n].returned = Recorded(SubSeq(loc[p].history, 1, n - 1))

\* Two filenames were recorded, the one with the later timestamp first, one
\* was removed, and the list was read after it.
C17_Witness ==
    \E p \in Procs :
        LET h == loc[p].history
        IN  /\ Len(h) = 4
            /\ h[1].op = "RecordMigration" /\ h[1].result = "ok"
            /\ h[2].op = "RecordMigration" /\ h[2].result = "ok"
            /\ h[1].filename[1] > h[2].filename[1]
            /\ h[3].op = "RemoveMigration" /\ h[3].result = "ok"
            /\ h[3].filename = h[2].filename
            /\ h[4].op = "GetAppliedMigrations" /\ h[4].result = "ok"
            /\ h[4].returned = <<h[1].filename>>

\* The statement of a call reached the ledger table.
Executed(call) == call.result \notin {"err_conn", "err_notable"}

\* C18: a RemoveMigration whose filename is not in the ledger returns no
\* error and leaves the rows as they were; so a second RemoveMigration of the
\* same filename right after the first leaves the ledger the first left.
C18_RemoveIdempotent ==
    \A p \in Procs : \A n \in 1..Len(loc[p].history) :
        LET call == loc[p].history[n]
        IN  (call.op = "RemoveMigration" /\ Executed(call)) =>
                /\ call.result = "ok"
                /\ (\A r \in call.before : r.filename # call.filename) =>
                       call.after = call.before
                /\ (/\ n > 1
                    /\ loc[p].history[n - 1].op = "RemoveMigration"
                    /\ loc[p].history[n - 1].filename = call.filename
                    /\ loc[p].history[n - 1].result = "ok") =>
                       call.after = loc[p].history[n - 1].after

\* A recorded filename was removed twice in a row while another stayed.
C18_Witness ==
    \E p \in Procs :
        LET h == loc[p].history
        IN  /\ Len(h) = 4
            /\ h[1].op = "RecordMigration" /\ h[1].result = "ok"
            /\ h[2].op = "RecordMigration" /\ h[2].result = "ok"
            /\ h[3].op = "RemoveMigration" /\ h[3].result = "ok"
            /\ h[3].filename = h[1].filename
            /\ h[4].op = "RemoveMigration" /\ h[4].result = "ok"
            /\ h[4].filename = h[1].filename
            /\ h[3].after # h[3].before
            /\ h[4].after = h[3].after
            /\ rows # {}

\* C19: at every point of an Up, Down or Status, a ledger row that was there
\* when the invocation started and is there now has the id, filename and
\* checksum it had; Up has only added rows, each with an id above every id
\* it started from, Down has only removed rows, and Status has changed none.
C19_EntriesNeverMutated ==
    \A p \in Procs :
        loc[p].op \in {"Up", "Down", "Status"} =>
            /\ \A r \in loc[p].startRows : \A q \in rows :
                   (r.id = q.id \/ r.filename = q.filename) => r = q
            /\ loc[p].op = "Up" =>
                   /\ loc[p].startRows \subseteq rows
                   /\ \A q \in rows \ loc[p].startRows : \A r \in loc[p].startRows :
                          q.id > r.id
            /\ loc[p].op = "Down" => rows \subseteq loc[p].startRows
            /\ loc[p].op = "Status" => rows = loc[p].startRows

\* An Up that started from a ledger with an entry has added another.
C19_Witness ==
    \E p \in Procs :
        /\ UpSucceeded(p)
        /\ loc[p].startRows # {}
        /\ rows # loc[p].startRows

\* Both invocations have committed a transaction of the same migration.
DoubleApplied ==
    \E f \in { BaseFilename(g) : g \in FileUniverse } :
        \A p \in Procs : \E n \in 1..Len(loc[p].committed) : loc[p].committed[n] = f

OrderCorrupted ==
    \E r, q \in rows : r.id < q.id /\ Before(RowTime(q), RowTime(r))

\* C21 as stated, as far as a formula over behaviours states a possibility:
\* two concurrent Ups come to leave the rows they added out of Timestamp order.
C21_Original == <>OrderCorrupted

\* C21 (amended): the rows two concurrent Ups have added to an empty ledger
\* are, in id order, in nondecreasing Timestamp order, and each invocation has
\* committed its own migrations in nondecreasing Timestamp order.
C21_CommitOrderKept ==
    /\ ~OrderCorrupted
    /\ \A p \in Procs : \A a, b \in 1..Len(loc[p].committed) :
           a < b => ~Before(ParseTime(loc[p].committed[b][1]),
                            ParseTime(loc[p].committed[a][1]))

\* Both invocations committed a migration, the ledger holds three rows, and
\* the row with the highest id is not of the invocation that added the first.
C21_Witness ==
    /\ \A p \in Procs : Len(loc[p].committed) >= 1
    /\ Cardinality(rows) = 3
    /\ \E p \in Procs :
           /\ OrderById(rows)[1].filename = loc[p].committed[1]
           /\ \A n \in 1..Len(loc[p].committed) :
                  loc[p].committed[n] # OrderById(rows)[3].filename

\* The base filenames that have a file in the directory.
OnDisk(d) == { BaseFilename(f) : f \in { g \in d.files : Matches(g) } }

\* The ledger rows an invocation started with whose filename has no file.
Orphans(p) == { r \in loc[p].startRows : r.filename \notin OnDisk(dir) }

\* Up has computed its pending migrations.
UpHasPending(p) ==
    /\ loc[p].op = "Up"
    /\ \/ loc[p].pc \in {"apply_begin", "apply_exec", "apply_record", "apply_commit"}
       \/ loc[p].pc = "done" /\ loc[p].result \in {"ok", "err_apply"}

\* C22: an Up that starts with ledger rows whose filename has no file keeps
\* those rows, returns no error other than those of the database, the
\* directory or a failed transaction, takes as pending exactly the loaded
\* migrations whose Filename was not in the ledger, in set order, and on
\* success has committed exactly those.
C22_OrphanEntryIgnored ==
    \A p \in Procs :
        (loc[p].op = "Up" /\ Orphans(p) # {}) =>
            /\ Orphans(p) \subseteq rows
            /\ loc[p].pc = "done" =>
                   loc[p].result \in {"ok", "err_create", "err_load", "err_applied", "err_apply"}
            /\ UpHasPending(p) =>
                   Names(loc[p].pendingMigrations) =
                       SelectSeq(Names(loc[p].migrationSet),
                                 LAMBDA f : \A r \in loc[p].startRows : r.filename # f)
            /\ UpSucceeded(p) =>
                   /\ loc[p].committed = Names(loc[p].pendingMigrations)
                   /\ LedgerFilenames =
                          { r.filename : r \in loc[p].startRows } \cup
                          { loc[p].migrationSet[n].Filename : n \in 1..Len(loc[p].migrationSet) }

\* Up applied a migration while the ledger held a row without a file.
C22_Witness ==
    \E p \in Procs :
        /\ UpSucceeded(p)
        /\ Orphans(p) # {}
        /\ Len(loc[p].committed) >= 1

\* The ledger rows an invocation started with whose up script on disk no
\* longer has the checksum the row holds.
Drifted(p) ==
    { r \in loc[p].startRows :
        \E f \in dir.files :
            /\ f.ext = "up"
            /\ BaseFilename(f) = r.filename
            /\ generateChecksum(f.content) # r.checksum }

C24_DownAllEmptiesLedger ==
    \A p \in Procs :
        (DownSucceeded(p) /\ loc[p].stage = "all") =>
            Len(loc[p].committed) = Len(loc[p].appliedMigrations)

\* Status returned nil.
StatusSucceeded(p) ==
    loc[p].op = "Status" /\ loc[p].pc = "done" /\ loc[p].result = "ok"

\* C25: when Status returns nil, it has printed one line for every base
\* filename that has an up file in the directory and no other line, in the
\* order of the loaded set (nondecreasing Timestamp), each marked applied
\* exactly when the ledger holds a row of that filename.
C25_StatusLines ==
    \A p \in Procs :
        StatusSucceeded(p) =>
            LET lines == IF loc[p].report = <<>> THEN <<>> ELSE loc[p].report[1].lines
            IN  /\ Names(lines) = Names(loc[p].migrationSet)
                /\ { lines[n].Filename : n \in 1..Len(lines) } =
                       { BaseFilename(f) : f \in { g \in dir.files : g.ext = "up" } }
                /\ \A a, b \in 1..Len(lines) :
                       /\ a # b => lines[a].Filename # lines[b].Filename
                       /\ a < b => ~Before(ParseTime(lines[b].Filename[1]),
                                           ParseTime(lines[a].Filename[1]))
                /\ \A n \in 1..Len(lines) :
                       lines[n].applied <=> lines[n].Filename \in LedgerFilenames

\* Status printed a pending line before an applied one.
C25_Witness ==
    \E p \in Procs :
        /\ StatusSucceeded(p)
        /\ loc[p].report # <<>>
        /\ \E a, b \in 1..Len(loc[p].report[1].lines) :
               /\ a < b
               /\ ~loc[p].report[1].lines[a].applied
               /\ loc[p].report[1].lines[b].applied

\* C26: when the migration directory does not exist, LoadMigrations returns
\* the empty set and no error, and an Up that got past CreateMigrationsTable
\* and GetAppliedMigrations returns nil, having begun no transaction and left
\* the ledger rows as they were.
C26_AbsentDirectoryIsEmptySet ==
    \A p \in Procs :
        (loc[p].op = "Up" /\ DoneBeyondDb(p) /\ ~dir.exists) =>
            /\ \A r \in LoadMigrations(dir) : ~r.err /\ r.Migrations = <<>>
            /\ loc[p].result = "ok"
            /\ loc[p].migrationSet = <<>>
            /\ loc[p].attempted = <<>>
            /\ rows = loc[p].startRows

\* Up returned nil without a directory, the ledger holding an entry.
C26_Witness ==
    \E p \in Procs :
        /\ UpSucceeded(p)
        /\ ~dir.exists
        /\ loc[p].startRows # {}

\* ------------------------------------------- configuration and connection
\* The Configs viper.Unmarshal may produce: every field unset or set, the
\* driver one of the three supported ones or another name.
Configs ==
    [ Driver : {"", "postgres", "mysql", "sqlite3", "oracle"},
      Host : {"", "db.internal"},
      Port : {0, 5433},
      Database : {"", "app"},
      Username : {"", "migr8"},
      Password : {"", "secret"},
      SSLMode : {"", "disable"},
      MigrationDirectory : {"", "./db/migrate"},
      MigrationTable : {"", "ledger"},
      BackupDirectory : {"", "./dumps"},
      BackupCompression : BOOLEAN,
      BackupRetentionDays : {0, 7},
      SeedDirectory : {"", "./fixtures"},
      Verbose : BOOLEAN ]

\* setDefaults that gives every driver without a port of its own the port of
\* postgres.
setDefaultsAnyPort(c) ==
    LET c1 == IF c.Driver = "" THEN [c EXCEPT !.Driver = "postgres"] ELSE c
        c2 == IF c1.Host = "" THEN [c1 EXCEPT !.Host = "localhost"] ELSE c1
        c3 == IF c2.Port = 0 THEN [c2 EXCEPT !.Port = IF c2.Driver = "mysql" THEN 3306 ELSE 5432]
              ELSE c2
        c4 == IF c3.MigrationDirectory = ""
              THEN [c3 EXCEPT !.MigrationDirectory = "./migrations"] ELSE c3
        c5 == IF c4.MigrationTable = ""
              THEN [c4 EXCEPT !.MigrationTable = "schema_migrations"] ELSE c4
        c6 == IF c5.BackupDirectory = ""
              THEN [c5 EXCEPT !.BackupDirectory = "./backups"] ELSE c5
        c7 == IF c6.BackupRetentionDays = 0
              THEN [c6 EXCEPT !.BackupRetentionDays = 30] ELSE c6
    IN  IF c7.SeedDirectory = "" THEN [c7 EXCEPT !.SeedDirectory = "./seeds"] ELSE c7

\* setDefaults, its assignments in the order of the code: the port is
\* chosen by the driver as the first assignment left it.
setDefaults(c) ==
    LET c1 == IF c.Driver = "" THEN [c EXCEPT !.Driver = "postgres"] ELSE c
        c2 == IF c1.Host = "" THEN [c1 EXCEPT !.Host = "localhost"] ELSE c1
        c3 == IF c2.Port = 0
              THEN [c2 EXCEPT !.Port = IF c2.Driver = "postgres" THEN 5432
                                       ELSE IF c2.Driver = "mysql" THEN 3306
                                       ELSE IF c2.Driver = "sqlite3" THEN 0
                                       ELSE @]
              ELSE c2
        c4 == IF c3.MigrationDirectory = ""
              THEN [c3 EXCEPT !.MigrationDirectory = "./migrations"] ELSE c3
        c5 == IF c4.MigrationTable = ""
              THEN [c4 EXCEPT !.MigrationTable = "schema_migrations"] ELSE c4
        c6 == IF c5.BackupDirectory = ""
              THEN [c5 EXCEPT !.BackupDirectory = "./backups"] ELSE c5
        c7 == IF c6.BackupRetentionDays = 0
              THEN [c6 EXCEPT !.BackupRetentionDays = 30] ELSE c6
    IN  IF c7.SeedDirectory = "" THEN [c7 EXCEPT !.SeedDirectory = "./seeds"] ELSE c7

\* GetDSN with a URL-style text for every driver it has no case for.
GetDSNAnyDriver(c) ==
    IF c.Driver = "postgres"
    THEN <<"host=", c.Host, " port=", c.Port, " user=", c.Username,
           " password=", c.Password, " dbname=", c.Database, " sslmode=", c.SSLMode>>
    ELSE IF c.Driver = "mysql"
    THEN <<c.Username, ":", c.Password, "@tcp(", c.Host, ":", c.Port, ")/", c.Database>>
    ELSE IF c.Driver = "sqlite3"
    THEN IF c.Database = "" THEN <<>> ELSE <<c.Database>>
    ELSE <<c.Driver, "://", c.Host, ":", c.Port, "/", c.Database>>

\* Config.GetDSN: the formatted text as the sequence of its parts, <<>> for
\* the empty string.
GetDSN(c) ==
    IF c.Driver = "postgres"
    THEN <<"host=", c.Host, " port=", c.Port, " user=", c.Username,
           " password=", c.Password, " dbname=", c.Database, " sslmode=", c.SSLMode>>
    ELSE IF c.Driver = "mysql"
    THEN <<c.Username, ":", c.Password, "@tcp(", c.Host, ":", c.Port, ")/", c.Database>>
    ELSE IF c.Driver = "sqlite3"
    THEN IF c.Database = "" THEN <<>> ELSE <<c.Database>>
    ELSE <<>>

\* The switch of CreateMigrationsTable: the CREATE TABLE text of the
\* driver's dialect, or the error of the default branch.
CreateTableQuery(driver) ==
    IF driver \in {"postgres", "mysql", "sqlite3"}
    THEN [err |-> FALSE, query |-> <<"CREATE TABLE IF NOT EXISTS", driver>>]
    ELSE [err |-> TRUE, query |-> <<>>]

InitConfig ==
    /\ dir = NoDirectory
    /\ tableExists = FALSE
    /\ rows = {}
    /\ nextId = 1
    /\ schema = <<>>
    /\ nOps = 0
    /\ nEdits = 0
    /\ \E c \in Configs :
         loc = [p \in Procs |->
                  IF p = "p1"
                  THEN [IdleLoc EXCEPT !.pc = "config", !.raw = c, !.cfg = c]
                  ELSE IdleLoc]

\* config.Load after viper.Unmarshal
Load(p) ==
    /\ loc[p].pc = "config"
    /\ loc' = [loc EXCEPT ![p] = [loc[p] EXCEPT !.cfg = setDefaults(@), !.pc = "loaded"]]
    /\ UNCHANGED <<dir, db, nOps, nEdits>>

\* The drivers GetDSN and CreateMigrationsTable have a case for.
Supported == {"postgres", "mysql", "sqlite3"}

\* A call of package database returns to the client: the history keeps the
\* function, the driver it was called for, what it returned and the
\* operations it performed on the database/sql handle.
Returns(l, op, driver, result, executed) ==
    [l EXCEPT !.op = op, !.result = result,
              !.history = Append(@, [op |-> op, Driver |-> driver, result |-> result,
                                     executed |-> executed])]

\* NewConnection(cfg), on a Config as unmarshalled (the tests) or after
\* setDefaults (the commands).  sql.Open and Ping may fail.
NewConnection(p) ==
    /\ loc[p].pc \in {"config", "loaded"}
    /\ \E opened, pinged \in BOOLEAN :
         loc' = [loc EXCEPT ![p] =
            LET l == loc[p]
                driver == l.cfg.Driver
                done(result, executed) ==
                    [Returns(l, "NewConnection", driver, result, executed) EXCEPT !.pc = "done"]
            IN  IF GetDSN(l.cfg) = <<>> THEN done("err_unsupported", {})
                ELSE IF ~opened THEN done("err_open", {"sql.Open"})
                ELSE IF ~pinged THEN done("err_ping", {"sql.Open", "Ping", "Close"})
                ELSE [Returns(l, "NewConnection", driver, "ok", {"sql.Open", "Ping"})
                         EXCEPT !.pc = "connected", !.Driver = driver]]
    /\ UNCHANGED <<dir, db, nOps, nEdits>>

\* db.CreateMigrationsTable(cfg.Migration.Table) on a connection of
\* NewConnection.
ConnCreateMigrationsTable(p) ==
    /\ loc[p].pc = "connected"
    /\ \E ok \in BOOLEAN :
         LET l == loc[p]
             q == CreateTableQuery(l.Driver)
         IN  /\ loc' = [loc EXCEPT ![p] =
                    [ IF q.err
                      THEN Returns(l, "CreateMigrationsTable", l.Driver, "err_unsupported", {})
                      ELSE Returns(l, "CreateMigrationsTable", l.Driver,
                                   IF ok THEN "ok" ELSE "err_create", {"db.Exec"})
                      EXCEPT !.pc = "done" ]]
             /\ tableExists' = (tableExists \/ (~q.err /\ ok))
    /\ UNCHANGED <<dir, rows, nextId, schema, nOps, nEdits>>

\* CreateMigrationsTable on &DB{Driver: d}, a DB that holds no connection
\* (TestCreateMigrationsTableUnsupportedDriver), before or after a
\* NewConnection that returned an error: with a supported driver the call
\* reaches db.Exec on a nil *sql.DB and panics.
LiteralCreateMigrationsTable(p) ==
    /\ loc[p].pc \in {"config", "done"}
    /\ loc[p].op # "CreateMigrationsTable"
    /\ loc[p].result # "panic"
    /\ loc' = [loc EXCEPT ![p] =
           LET driver == loc[p].raw.Driver
               l == [loc[p] EXCEPT !.Driver = driver]
           IN  [ Returns(l, "CreateMigrationsTable", driver,
                         IF CreateTableQuery(driver).err THEN "err_unsupported" ELSE "panic",
                         {})
                 EXCEPT !.pc = "done" ]]
    /\ UNCHANGED <<dir, db, nOps, nEdits>>

NextConfig ==
    \E p \in {"p1"} :
        \/ Load(p)
        \/ NewConnection(p)
        \/ ConnCreateMigrationsTable(p)
        \/ LiteralCreateMigrationsTable(p)

SpecConfig == InitConfig /\ [][NextConfig]_vars

\* config.Load has applied setDefaults to the Config of process p.
Loaded(p) == loc[p].pc = "loaded"

\* C27 as stated: after setDefaults every field that was unset holds a
\* default (the listed fields the listed one) and every field that was set
\* holds the value it had.
C27_Original ==
    \A p \in Procs :
        Loaded(p) =>
            LET raw == loc[p].raw
                cfg == loc[p].cfg
            IN  /\ \A f \in DOMAIN ZeroConfig :
                       IF raw[f] = ZeroConfig[f] THEN cfg[f] # ZeroConfig[f]
                       ELSE cfg[f] = raw[f]
                /\ raw.Driver = "" => cfg.Driver = "postgres"
                /\ raw.Host = "" => cfg.Host = "localhost"
                /\ (raw.Port = 0 /\ cfg.Driver = "postgres") => cfg.Port = 5432
                /\ (raw.Port = 0 /\ cfg.Driver = "mysql") => cfg.Port = 3306
                /\ raw.MigrationDirectory = "" => cfg.MigrationDirectory = "./migrations"
                /\ raw.MigrationTable = "" => cfg.MigrationTable = "schema_migrations"

\* C27: after setDefaults an unset driver is postgres, an unset host
\* localhost, an unset port 5432 for postgres and 3306 for mysql, an unset
\* migration directory ./migrations, an unset table schema_migrations, an
\* unset backup directory ./backups, an unset retention 30 days and an unset
\* seed directory ./seeds; an unset port of any other driver and every other
\* unset field stay unset; no field that was set is changed.
C27_DefaultsWhereDefined ==
    \A p \in Procs :
        Loaded(p) =>
            LET raw == loc[p].raw
                cfg == loc[p].cfg
            IN  /\ \A f \in DOMAIN ZeroConfig : raw[f] # ZeroConfig[f] => cfg[f] = raw[f]
                /\ raw.Driver = "" => cfg.Driver = "postgres"
                /\ raw.Host = "" => cfg.Host = "localhost"
                /\ (raw.Port = 0 /\ cfg.Driver = "postgres") => cfg.Port = 5432
                /\ (raw.Port = 0 /\ cfg.Driver = "mysql") => cfg.Port = 3306
                /\ (raw.Port = 0 /\ cfg.Driver \notin {"postgres", "mysql"}) => cfg.Port = 0
                /\ raw.MigrationDirectory = "" => cfg.MigrationDirectory = "./migrations"
                /\ raw.MigrationTable = "" => cfg.MigrationTable = "schema_migrations"
                /\ raw.BackupDirectory = "" => cfg.BackupDirectory = "./backups"
                /\ raw.BackupRetentionDays = 0 => cfg.BackupRetentionDays = 30
                /\ raw.SeedDirectory = "" => cfg.SeedDirectory = "./seeds"
                /\ \A f \in {"Database", "Username", "Password", "SSLMode",
                             "BackupCompression", "Verbose"} : cfg[f] = raw[f]

\* setDefaults ran on a Config of driver sqlite3 with the port, the host and
\* the database name unset and the table set.
C27_Witness ==
    \E p \in Procs :
        /\ Loaded(p)
        /\ loc[p].raw.Driver = "sqlite3"
        /\ loc[p].raw.Port = 0
        /\ loc[p].raw.Host = ""
        /\ loc[p].raw.Database = ""
        /\ loc[p].raw.MigrationTable # ""
        /\ loc[p].cfg.Host = "localhost"

\* C28: a call of NewConnection or CreateMigrationsTable for a driver other
\* than postgres, mysql and sqlite3 returns the unsupported-driver error and
\* performs no operation on a database handle; as long as every call was for
\* such a driver the ledger table has not been created.
C28_UnsupportedDriver ==
    \A p \in Procs :
        LET h == loc[p].history
        IN  /\ \A n \in 1..Len(h) :
                   h[n].Driver \notin Supported =>
                       h[n].result = "err_unsupported" /\ h[n].executed = {}
            /\ (h # <<>> /\ \A n \in 1..Len(h) : h[n].Driver \notin Supported) =>
                   ~tableExists /\ loc[p].pc = "done"

\* NewConnection and then CreateMigrationsTable were called for the driver
\* oracle, NewConnection on a Config that setDefaults had completed.
C28_Witness ==
    \E p \in Procs :
        /\ Len(loc[p].history) = 2
        /\ loc[p].history[1].op = "NewConnection"
        /\ loc[p].history[2].op = "CreateMigrationsTable"
        /\ loc[p].history[1].Driver = "oracle"
        /\ loc[p].history[2].Driver = "oracle"
        /\ loc[p].cfg.Host = "localhost"
        /\ loc[p].raw.Host = ""

\* --------------------------------------------------- scripts with comments
\* Longest script, in tokens.
MaxScript == 4

\* Two runs of SQL text, the separator, the comment marker and a line break.
Tokens == {"s1", "s2", ";", "--", "\n"}

Scripts == UNION { [1..n -> Tokens] : n \in 1..MaxScript }

\* The directory holds one migration whose up and down file both hold
\* `script`; the ledger table exists and is empty or holds the migration.
ScriptFiles(script) ==
    { File(101, "b", "up", script), File(101, "b", "down", script) }

InitScript ==
    /\ \E script \in Scripts, applied \in BOOLEAN :
         /\ dir = [exists |-> TRUE, files |-> ScriptFiles(script)]
         /\ rows = IF applied
                   THEN { [id |-> 1, filename |-> <<101, "b">>,
                           checksum |-> generateChecksum(script)] }
                   ELSE {}
         /\ nextId = IF applied THEN 2 ELSE 1
    /\ tableExists = TRUE
    /\ schema = <<>>
    /\ loc = [p \in Procs |-> IdleLoc]
    /\ nOps = 0
    /\ nEdits = 0

\* One invocation of Up or Down.
NextScript ==
    \E p \in {"p1"} :
        \/ UpCreateMigrationsTable(p)
        \/ UpLoadMigrations(p)
        \/ UpGetAppliedMigrations(p)
        \/ applyMigrationBegin(p)
        \/ applyMigrationExec(p)
        \/ applyMigrationRecord(p)
        \/ applyMigrationCommit(p)
        \/ \E steps \in (0 - 1)..MaxSteps : DownGetAppliedMigrations(p, steps)
        \/ DownLoadMigrations(p)
        \/ DownLookup(p)
        \/ rollbackMigrationBegin(p)
        \/ rollbackMigrationExec(p)
        \/ rollbackMigrationRemove(p)
        \/ rollbackMigrationCommit(p)

SpecScript == InitScript /\ [][NextScript]_vars

\* The lines of a piece of script.
RECURSIVE Lines(_)
Lines(s) ==
    IF \E k \in 1..Len(s) : s[k] = "\n"
    THEN LET k == CHOOSE j \in 1..Len(s) : s[j] = "\n" /\ \A i \in 1..(j - 1) : s[i] # "\n"
         IN  <<SubSeq(s, 1, k - 1)>> \o Lines(SubSeq(s, k + 1, Len(s)))
    ELSE <<s>>

\* A line that begins with the comment marker.
CommentLine(line) == HasPrefix(TrimLeft(line))

\* The SQL of a piece: its lines that are not comment lines, trimmed.
RECURSIVE JoinSql(_)
JoinSql(lines) ==
    IF lines = <<>> THEN <<>>
    ELSE IF CommentLine(Head(lines)) THEN JoinSql(Tail(lines))
    ELSE Head(lines) \o <<"\n">> \o JoinSql(Tail(lines))

Sql(piece) == TrimSpace(JoinSql(Lines(piece)))

\* The SQL of the statements of a script: of each piece between separators
\* that holds any.
RECURSIVE NonBlank(_)
NonBlank(seq) ==
    IF seq = <<>> THEN <<>>
    ELSE IF Head(seq) = <<>> THEN NonBlank(Tail(seq))
    ELSE <<Head(seq)>> \o NonBlank(Tail(seq))

SqlOf(pieces) == [n \in 1..Len(pieces) |-> Sql(pieces[n])]

SqlStatements(script) == NonBlank(SqlOf(Split(script)))

\* The statements the open transaction of p has executed, in order.
RECURSIVE ExecsOf(_)
ExecsOf(tx) ==
    IF tx = <<>> THEN <<>>
    ELSE IF Head(tx).kind = "exec" THEN <<Head(tx).stmt>> \o ExecsOf(Tail(tx))
    ELSE ExecsOf(Tail(tx))

\* Every statement of the script of p's transaction succeeded: the next
\* call is the ledger write.
ScriptDone(p) == loc[p].pc \in {"apply_record", "rollback_remove"}

ScriptOf(p) ==
    IF loc[p].pc = "apply_record" THEN loc[p].migration.Up ELSE loc[p].migration.Down

\* C29: when every statement of a script has been executed, the SQL that
\* reached tx.Exec is the SQL of the script's pieces between separators,
\* each once and in script order, only blank pieces and comment lines left
\* out; the same for up and down scripts.
C29_EveryStatementExecuted ==
    \A p \in Procs :
        ScriptDone(p) => SqlOf(ExecsOf(loc[p].tx)) = SqlStatements(ScriptOf(p))

\* The writes of a transaction are the statements of `script`, each executed
\* for `filename`, in script order, and nothing else.
OnlyScript(tx, filename, script) ==
    /\ ExecsOf(tx) = Statements(script)
    /\ \A n \in 1..Len(tx) : tx[n].kind = "exec" /\ tx[n].filename = filename

\* The transaction without its last write.
Front(tx) == SubSeq(tx, 1, Len(tx) - 1)

\* C30: within a migration's transaction the ledger write is the last
\* write.  Where applyMigration or rollbackMigration is about to issue the
\* ledger insert or delete, every statement of the script has been executed
\* on the transaction and nothing else; where it is about to issue the
\* commit, the transaction holds those statements followed by the ledger
\* write of that migration; no transaction holds a ledger write anywhere but
\* last.
C30_LedgerWriteLast ==
    \A p \in Procs :
        LET l == loc[p]
            tx == l.tx
        IN  /\ l.pc = "apply_record" => OnlyScript(tx, l.migration.Filename, l.migration.Up)
            /\ l.pc = "rollback_remove" => OnlyScript(tx, l.migration.Filename, l.migration.Down)
            /\ l.pc = "apply_commit" =>
                   /\ tx # <<>>
                   /\ tx[Len(tx)].kind = "insert"
                   /\ tx[Len(tx)].filename = l.migration.Filename
                   /\ OnlyScript(Front(tx), l.migration.Filename, l.migration.Up)
            /\ l.pc = "rollback_commit" =>
                   /\ tx # <<>>
                   /\ tx[Len(tx)].kind = "delete"
                   /\ tx[Len(tx)].filename = l.migration.Filename
                   /\ OnlyScript(Front(tx), l.migration.Filename, l.migration.Down)
            /\ \A n \in 1..Len(tx) : tx[n].kind \in {"insert", "delete"} => n = Len(tx)
            /\ l.pc \in {"apply_record", "rollback_remove", "apply_commit", "rollback_commit"}
                   => l.txOpen

\* applyMigration is about to commit a transaction of two statements and the
\* ledger insert.
C30_Witness ==
    \E p \in Procs :
        /\ loc[p].pc = "apply_commit"
        /\ Len(loc[p].tx) = 3
        /\ loc[p].tx[3].kind = "insert"

\* The positions of applyMigration and rollbackMigration between db.Begin
\* and the return.
InTransaction == {"apply_exec", "apply_record", "apply_commit",
                  "rollback_exec", "rollback_remove", "rollback_commit"}

\* C31: an invocation has at most one transaction open.  A step that begins
\* a transaction starts from a state in which the invocation holds none,
\* open or with writes; a transaction is open only between db.Begin and the
\* return of applyMigration or rollbackMigration; and when Up or Down has
\* returned, with nil or with any error, its transaction is closed.
C31_OneTransactionAtATime ==
    [][ \A p \in Procs :
          /\ Len(loc'[p].attempted) > Len(loc[p].attempted) =>
                 ~loc[p].txOpen /\ loc[p].tx = <<>>
          /\ (loc'[p].txOpen \/ loc'[p].tx # <<>>) => loc'[p].pc \in InTransaction
          /\ loc'[p].pc \in InTransaction => loc'[p].txOpen
          /\ loc'[p].pc = "done" => ~loc'[p].txOpen /\ loc'[p].tx = <<>> ]_vars

\* Up returned the error of a statement of its second transaction, the
\* first one committed.
C31_Witness ==
    \E p \in Procs :
        /\ UpFailed(p)
        /\ loc[p].stage = "exec"
        /\ Len(loc[p].attempted) = 2
        /\ Len(loc[p].committed) = 1
        /\ ~loc[p].txOpen

\* No element occurs twice in the sequence.
Distinct(seq) == \A a, b \in 1..Len(seq) : a # b => seq[a] # seq[b]

\* C32: no retry.  Within one invocation no migration's transaction is
\* begun twice; the statements a transaction has executed are the first
\* k - 1 statements of its script, each once; a step that ends a transaction
\* without committing it, or fails to begin one, returns an error from the
\* invocation; and after the return no transaction is begun and no statement
\* executed.
C32_NoRetry ==
    [][ \A p \in Procs :
          LET l == loc[p]
              l2 == loc'[p]
          IN  /\ Distinct(l2.attempted)
              /\ l2.txOpen =>
                     /\ Len(ExecsOf(l2.tx)) = l2.k - 1
                     /\ ExecsOf(l2.tx) = SubSeq(l2.statements, 1, l2.k - 1)
              /\ (l.txOpen /\ ~l2.txOpen /\ Len(l2.committed) = Len(l.committed)) =>
                     l2.pc = "done" /\ l2.result # "ok"
              /\ (Len(l2.attempted) > Len(l.attempted) /\ ~l2.txOpen) =>
                     l2.pc = "done" /\ l2.result # "ok"
              /\ (l.pc = "done" /\ l2 # l) => l2.pc = "idle" ]_vars

\* Up returned the error of a statement of the first of two pending
\* migrations.
C32_Witness ==
    \E p \in Procs :
        /\ UpFailed(p)
        /\ loc[p].stage = "exec"
        /\ Len(loc[p].attempted) = 1
        /\ Len(loc[p].pendingMigrations) >= 2

\* C33: an Up that got past its database calls and the directory load, and
\* ran when every base filename of the directory was in the ledger, returns
\* nil with nothing pending, has begun no transaction and called no ledger
\* write, has executed and committed nothing, and leaves the ledger rows as
\* they were.
C33_UpWithNothingPending ==
    \A p \in Procs :
        ( /\ loc[p].op = "Up"
          /\ DoneBeyondDb(p)
          /\ loc[p].result # "err_load"
          /\ OnDisk(dir) \subseteq { r.filename : r \in loc[p].startRows } ) =>
            /\ loc[p].result = "ok"
            /\ loc[p].pendingMigrations = <<>>
            /\ loc[p].attempted = <<>>
            /\ \A c \in loc[p].calls : ~c.inTx
            /\ loc[p].tx = <<>> /\ loc[p].committed = <<>>
            /\ rows = loc[p].startRows

\* Up returned nil with nothing to apply right after an Up that had applied
\* two migrations.
C33_Witness ==
    \E p \in Procs :
        /\ UpSucceeded(p)
        /\ loc[p].prev.upOk
        /\ loc[p].prev.n = 2
        /\ loc[p].attempted = <<>>
        /\ Cardinality(rows) = 2
        /\ OnDisk(dir) = LedgerFilenames

C35_StatusTotalsAddUp ==
    \A p \in Procs :
        (StatusSucceeded(p) /\ loc[p].report # <<>>) =>
            loc[p].report[1].total = loc[p].report[1].applied + loc[p].report[1].pending

\* ------------------------------------------------------------------ Create
\* The names handed to `migrate create`, each with its text in tokens and
\* with strings.ReplaceAll(strings.ToLower(name), " ", "_").
CreateNames == {"add_users", "fix; cleanup", "fix;"}

NameText(name) ==
    IF name = "add_users" THEN <<"add_users">>
    ELSE IF name = "fix; cleanup" THEN <<"fix", ";", " ", "cleanup">>
    ELSE <<"fix", ";">>

cleanName(name) ==
    IF name = "fix; cleanup" THEN "fix;_cleanup" ELSE name

\* One comment line of a template.
CommentText(text) == <<"--", " ">> \o text \o <<"\n">>

\* fmt.Sprintf of the up template: six comment lines, an empty line and the
\* commented example, whose last line ends with the separator.
upTemplate(name) ==
    CommentText(<<"Migration:", " ">> \o NameText(name)) \o
    CommentText(<<"Created:", " ", "now">>) \o
    CommentText(<<"Description: Add your up migration here">>) \o
    <<"\n">> \o
    CommentText(<<"Example:">>) \o
    CommentText(<<"CREATE TABLE users (">>) \o
    CommentText(<<"id SERIAL PRIMARY KEY,">>) \o
    CommentText(<<"email VARCHAR(255) UNIQUE NOT NULL,">>) \o
    CommentText(<<"created_at TIMESTAMP DEFAULT NOW()">>) \o
    CommentText(<<")", ";">>)

downTemplate(name) ==
    CommentText(<<"Migration:", " ">> \o NameText(name) \o <<" ", "(Down)">>) \o
    CommentText(<<"Created:", " ", "now">>) \o
    CommentText(<<"Description: Add your down migration here">>) \o
    <<"\n">> \o
    CommentText(<<"Example:">>) \o
    CommentText(<<"DROP TABLE IF EXISTS users", ";">>)

\* The files GenerateMigrationFiles writes; time.Now() is 1 November.
GeneratedUp(name) == File(101, cleanName(name), "up", upTemplate(name))
GeneratedDown(name) == File(101, cleanName(name), "down", downTemplate(name))

\* Migrator.Create(name): os.MkdirAll, then the up file, then the down file;
\* each write may fail, and the file written before stays.  One Create in a
\* history.
Create(p, name) ==
    /\ \A q \in Procs : loc[q].pc = "idle"
    /\ nEdits < MaxEdits
    /\ nEdits' = nEdits + 1
    /\ \E written \in {{}, {GeneratedUp(name)}, {GeneratedUp(name), GeneratedDown(name)}} :
         dir' = [exists |-> TRUE,
                 files |-> { f \in dir.files : \A g \in written : FileName(f) # FileName(g) }
                           \cup written]
    /\ UNCHANGED <<db, loc, nOps>>

InitCreate == Init /\ dir.files = {}

NextCreate ==
    \/ \E p \in {"p1"} : Step(p)
    \/ \E p \in {"p1"} : \E name \in CreateNames : Create(p, name)

SpecCreate == InitCreate /\ [][NextCreate]_vars

\* Both files of a generated migration are in the directory as written.
Unedited(d) ==
    \E name \in CreateNames : d.files = {GeneratedUp(name), GeneratedDown(name)}

\* C36: with a generated migration left as written in the directory, no
\* transaction of Up or Down holds a statement to execute and none is ever
\* committed; an Up that returns nil has the migration in the ledger, and a
\* Down that returns nil after rolling back has taken it out.
C36_GeneratedIsNoOp ==
    Unedited(dir) =>
        /\ schema = <<>>
        /\ \A p \in Procs :
             /\ loc[p].txOpen => loc[p].statements = <<>> /\ ExecsOf(loc[p].tx) = <<>>
             /\ loc[p].pc = "done" => loc[p].stage # "exec"
             /\ UpSucceeded(p) => LedgerFilenames = OnDisk(dir)
             /\ (DownSucceeded(p) /\ loc[p].committed # <<>>) => LedgerFilenames = {}

\* C37: only Up creates the ledger table.  A step that creates it is the
\* CreateMigrationsTable call of an Up; and a Down or Status that returns
\* while the table does not exist returns an error, having called no
\* CreateMigrationsTable, begun no transaction, printed no report and left
\* the database as it was.
C37_OnlyUpCreatesLedger ==
    [][ /\ (tableExists' /\ ~tableExists) =>
               \E p \in Procs : loc[p].pc = "idle" /\ loc'[p].op = "Up"
        /\ \A p \in Procs :
             (loc'[p].op \in {"Down", "Status"} /\ loc'[p].pc = "done" /\ ~tableExists') =>
                 /\ loc'[p].result \in {"err_applied", "err_load"}
                 /\ loc'[p].op = "Down" => loc'[p].result = "err_applied"
                 /\ \A c \in loc'[p].calls : c.name # "CreateMigrationsTable"
                 /\ loc'[p].attempted = <<>>
                 /\ loc'[p].report = <<>>
                 /\ <<rows', schema', nextId'>> = <<rows, schema, nextId>>
                 /\ rows' = {} ]_vars

\* Status loaded a migration and returned the error of the ledger query,
\* the table not existing.
C37_Witness ==
    \E p \in Procs :
        /\ loc[p].op = "Status"
        /\ loc[p].pc = "done"
        /\ loc[p].result = "err_applied"
        /\ loc[p].migrationSet # <<>>
        /\ ~tableExists

\* ------------------------------------------- LoadMigrations on its own
\* The files a directory handed to LoadMigrations may hold: an up and a down
\* file of one base filename, up files alone, two base filenames of one
\* timestamp, a prefix that names no calendar day, a down file alone, an
\* empty up file and a name the pattern does not match.
LoadUniverse ==
    { File(102, "a", "up", UpA), File(102, "a", "down", DownA),
      File(101, "b", "up", UpB), File(102, "d", "up", UpC),
      File(1340, "c", "up", UpC), File(101, "e", "down", DownB),
      File(103, "f", "up", Empty), File(101, "b", "txt", UpA) }

InitLoad ==
    /\ dir \in {NoDirectory} \cup { [exists |-> TRUE, files |-> fs] : fs \in SUBSET LoadUniverse }
    /\ tableExists = FALSE
    /\ rows = {}
    /\ nextId = 1
    /\ schema = <<>>
    /\ loc = [p \in Procs |-> IF p = "p1" THEN [IdleLoc EXCEPT !.pc = "load"] ELSE IdleLoc]
    /\ nOps = 0
    /\ nEdits = 0

CallLoadMigrations(p) ==
    /\ loc[p].pc = "load"
    /\ \E r \in LoadMigrations(dir) :
         loc' = [loc EXCEPT ![p] =
                    [loc[p] EXCEPT !.migrationSet = r.Migrations, !.pc = "loaded_set",
                                   !.result = IF r.err THEN "err_load" ELSE "ok"]]
    /\ UNCHANGED <<dir, db, nOps, nEdits>>

NextLoad == \E p \in {"p1"} : CallLoadMigrations(p)

SpecLoad == InitLoad /\ [][NextLoad]_vars

\* LoadMigrations returned a migration set to p.
SetLoaded(p) == loc[p].pc = "loaded_set" /\ loc[p].result = "ok"

\* The content of the file of that base filename and direction, Empty when
\* the directory holds none.
ContentOf(d, base, ext) ==
    IF \E f \in d.files : BaseFilename(f) = base /\ f.ext = ext
    THEN (CHOOSE f \in d.files : BaseFilename(f) = base /\ f.ext = ext).content
    ELSE Empty

\* C38: a migration set LoadMigrations returns holds one record for each
\* base filename that has an up file and no other record; the record holds
\* the content of the up file, the content of the down file of that base
\* filename when there is one, and the checksum of the up content; no record
\* stands before one of an earlier timestamp; files the pattern does not
\* match add no record and no content.
C38_LoadedSet ==
    \A p \in Procs :
        SetLoaded(p) =>
            LET ms == loc[p].migrationSet
            IN  /\ { ms[n].Filename : n \in 1..Len(ms) } =
                       { BaseFilename(f) : f \in { g \in dir.files : g.ext = "up" } }
                /\ Distinct(Names(ms))
                /\ \A n \in 1..Len(ms) :
                       /\ ms[n].Up = ContentOf(dir, ms[n].Filename, "up")
                       /\ ms[n].Down = ContentOf(dir, ms[n].Filename, "down")
                       /\ ms[n].Checksum = generateChecksum(ms[n].Up)
                       /\ ms[n].Timestamp = ParseTime(ms[n].Filename[1])
                /\ \A a, b \in 1..Len(ms) :
                       a < b => ~Before(ms[b].Timestamp, ms[a].Timestamp)

\* A set of four records was loaded from a directory that also holds a down
\* file of one of them and a file the pattern does not match.
C38_Witness ==
    \E p \in Procs :
        /\ SetLoaded(p)
        /\ Len(loc[p].migrationSet) = 4
        /\ File(102, "a", "down", DownA) \in dir.files
        /\ File(101, "b", "txt", UpA) \in dir.files
        /\ loc[p].migrationSet[1].Filename = <<1340, "c">>

\* -------------------------------------------------------------- seeding
\* Most data rows in one seed file.
MaxRows == 2

\* A seed file as Run processes it: a YAML file (name, table and truncate
\* read from its content) or a CSV file (table from its name, Truncate
\* always true), with its number of data rows.
SeedFile(kind, name, table, truncate, n) ==
    [kind |-> kind, Name |-> name, Table |-> table, Truncate |-> truncate, n |-> n]

\* The seed files of the directory in the order Run takes them: YAML files
\* by Name, then CSV files by Filename.
SeedUniverse ==
    << SeedFile("yaml", "01_a", "a", TRUE, MaxRows),
       SeedFile("yaml", "02_b", "b", FALSE, 1),
       SeedFile("yaml", "03_n", "", FALSE, 1),
       SeedFile("csv", "04_c.csv", "c", TRUE, 1) >>

RECURSIVE Pick(_, _)
Pick(seq, keep) ==
    IF seq = <<>> THEN <<>>
    ELSE (IF Len(seq) \in keep THEN <<seq[Len(seq)]>> ELSE <<>>)
         \o Pick(SubSeq(seq, 1, Len(seq) - 1), keep)

Reverse(seq) == [n \in 1..Len(seq) |-> seq[Len(seq) + 1 - n]]

SeedDirectories ==
    { Reverse(Pick(SeedUniverse, keep)) : keep \in SUBSET (1..Len(SeedUniverse)) }

InitSeed ==
    /\ dir = NoDirectory
    /\ tableExists = FALSE
    /\ rows = {}
    /\ nextId = 1
    /\ schema = <<>>
    /\ nOps = 0
    /\ nEdits = 0
    /\ \E driver \in Supported, files \in SeedDirectories :
         loc = [p \in Procs |->
                  IF p = "p1"
                  THEN [IdleLoc EXCEPT !.pc = "seed_run", !.op = "Seed",
                                       !.Driver = driver, !.seedFiles = files]
                  ELSE IdleLoc]

\* TRUNCATE TABLE on MySQL commits the open transaction and itself at once
\* and leaves the session in autocommit mode; TRUNCATE on postgres and
\* DELETE FROM on sqlite3 are writes of the transaction.
ImplicitCommit(driver, file) == driver = "mysql" /\ file.Truncate

\* The statement truncateTable builds for the driver.
TruncateQuery(driver, table) ==
    IF driver = "postgres" THEN <<"TRUNCATE TABLE", table, "RESTART IDENTITY CASCADE">>
    ELSE IF driver = "mysql" THEN <<"TRUNCATE TABLE", table>>
    ELSE <<"DELETE FROM", table>>

InsertQuery(table, k) == <<"INSERT INTO", table, k>>

SeedFailed(l, stage) == Return([Rollback(l) EXCEPT !.stage = stage], "err_seed")

\* The file is done: the next one, or "All seeds processed successfully!".
SeedProcessed(l) ==
    IF l.i < Len(l.seedFiles) THEN [l EXCEPT !.i = @ + 1, !.pc = "seed_begin"]
    ELSE Return(l, "ok")

\* Seeder.Run up to the first file: loadYAMLSeeds and loadCSVSeeds.
Run(p) ==
    /\ loc[p].pc = "seed_run"
    /\ \E ok \in BOOLEAN :
         loc' = [loc EXCEPT ![p] =
                    IF ~ok THEN Return(loc[p], "err_load")
                    ELSE IF Len(loc[p].seedFiles) = 0 THEN Return(loc[p], "ok")
                    ELSE [loc[p] EXCEPT !.i = 1, !.pc = "seed_begin"]]
    /\ UNCHANGED <<dir, db, nOps, nEdits>>

\* processYAMLSeed / processCSVSeed up to db.Begin: the table name test of
\* a YAML file, the read of a CSV file, then db.Begin.
processSeedBegin(p) ==
    /\ loc[p].pc = "seed_begin"
    /\ \E read, ok \in BOOLEAN :
         loc' = [loc EXCEPT ![p] =
                    LET l == loc[p]
                        file == l.seedFiles[l.i]
                    IN  IF file.kind = "yaml" /\ file.Table = "" THEN SeedFailed(l, "table")
                        ELSE IF file.kind = "csv" /\ ~read THEN SeedFailed(l, "read")
                        ELSE IF ~ok
                        THEN SeedFailed([l EXCEPT !.attempted = Append(@, file.Name)], "begin")
                        ELSE [l EXCEPT !.txOpen = TRUE, !.tx = <<>>, !.k = 1,
                                       !.attempted = Append(@, file.Name),
                                       !.beginSchema = schema,
                                       !.pc = IF file.Truncate THEN "seed_truncate"
                                              ELSE IF file.n >= 1 THEN "seed_insert"
                                              ELSE "seed_commit"]]
    /\ UNCHANGED <<dir, db, nOps, nEdits>>

\* truncateTable(tx, table)
truncateTable(p) ==
    /\ loc[p].pc = "seed_truncate"
    /\ \E ok \in BOOLEAN :
         LET l == loc[p]
             file == l.seedFiles[l.i]
             write == ExecWrite(file.Name, TruncateQuery(l.Driver, file.Table))
             next == IF file.n >= 1 THEN "seed_insert" ELSE "seed_commit"
         IN  /\ loc' = [loc EXCEPT ![p] =
                    IF ~ok THEN SeedFailed(l, "truncate")
                    ELSE IF ImplicitCommit(l.Driver, file) THEN [l EXCEPT !.pc = next]
                    ELSE [l EXCEPT !.tx = Append(@, write), !.pc = next]]
             /\ schema' = IF ok /\ ImplicitCommit(l.Driver, file)
                          THEN CommitSchema(schema, Append(l.tx, write))
                          ELSE schema
    /\ UNCHANGED <<dir, tableExists, rows, nextId, nOps, nEdits>>

\* insertRow(tx, table, row) for the next data row
insertRow(p) ==
    /\ loc[p].pc = "seed_insert"
    /\ \E ok \in BOOLEAN :
         LET l == loc[p]
             file == l.seedFiles[l.i]
             write == ExecWrite(file.Name, InsertQuery(file.Table, l.k))
             next == IF l.k < file.n THEN "seed_insert" ELSE "seed_commit"
         IN  /\ loc' = [loc EXCEPT ![p] =
                    IF ~ok THEN SeedFailed(l, "insert")
                    ELSE IF ImplicitCommit(l.Driver, file)
                    THEN [l EXCEPT !.k = @ + 1, !.pc = next]
                    ELSE [l EXCEPT !.tx = Append(@, write), !.k = @ + 1, !.pc = next]]
             /\ schema' = IF ok /\ ImplicitCommit(l.Driver, file)
                          THEN CommitSchema(schema, <<write>>)
                          ELSE schema
    /\ UNCHANGED <<dir, tableExists, rows, nextId, nOps, nEdits>>

\* tx.Commit of the file's transaction
processSeedCommit(p) ==
    /\ loc[p].pc = "seed_commit"
    /\ \E ok \in BOOLEAN :
         /\ schema' = IF ok THEN CommitSchema(schema, loc[p].tx) ELSE schema
         /\ loc' = [loc EXCEPT ![p] =
                IF ok THEN SeedProcessed(Committed([loc[p] EXCEPT !.migration.Filename =
                                                      loc[p].seedFiles[loc[p].i].Name]))
                ELSE SeedFailed(loc[p], "commit")]
    /\ UNCHANGED <<dir, tableExists, rows, nextId, nOps, nEdits>>

NextSeed ==
    \E p \in {"p1"} :
        \/ Run(p)
        \/ processSeedBegin(p)
        \/ truncateTable(p)
        \/ insertRow(p)
        \/ processSeedCommit(p)

SpecSeed == InitSeed /\ [][NextSeed]_vars

\* The committed writes of one seed file, in order.
RECURSIVE WritesOf(_, _)
WritesOf(sc, name) ==
    IF sc = <<>> THEN <<>>
    ELSE (IF Head(sc).filename = name THEN <<Head(sc).stmt>> ELSE <<>>)
         \o WritesOf(Tail(sc), name)

\* Every write of a seed file: the truncate when asked for, then its rows.
AllWrites(driver, file) ==
    (IF file.Truncate THEN <<TruncateQuery(driver, file.Table)>> ELSE <<>>)
    \o [k \in 1..file.n |-> InsertQuery(file.Table, k)]

\* C39: each seed file is loaded in a transaction of its own.  When the
\* truncate or a row insert of a file fails, the run returns the error with
\* no later file begun, no write of that file is committed, the truncate
\* included, and every file processed before it has all its writes
\* committed.
C39_SeedFileAtomic ==
    \A p \in Procs :
        ( /\ loc[p].op = "Seed" /\ loc[p].pc = "done" /\ loc[p].result = "err_seed"
          /\ loc[p].stage \in {"truncate", "insert"} ) =>
            LET l == loc[p]
                failed == l.seedFiles[l.i]
            IN  /\ ~l.txOpen
                /\ l.attempted = Append(l.committed, failed.Name)
                /\ WritesOf(schema, failed.Name) = <<>>
                /\ \A n \in 1..Len(l.committed) :
                       \E j \in 1..(l.i - 1) :
                           /\ l.seedFiles[j].Name = l.committed[n]
                           /\ WritesOf(schema, l.committed[n]) = AllWrites(l.Driver, l.seedFiles[j])

====
